---------------------------- MODULE Spec2Model ----------------------------
(***************************************************************************)
(* A model of the Hea risk-inference pipeline and of the handlers around   *)
(* it (ritikiitg/hea): the rule-based text and time-series extractors and  *)
(* the fusion step of InferenceService, WeightedFusionClassifier.classify, *)
(* FeedbackService, the stored tables the routers and PrivacyService read *)
(* and write, and GeminiService behind the /insights router.               *)
(*                                                                         *)
(* Numbers.  The code computes in binary floating point and rounds with    *)
(* round(x, n).  The model computes the same expressions in exact decimal  *)
(* fixed point: a score is an integer number of thousandths (0.8 is 800),  *)
(* a feedback adjustment an integer number of ten-thousandths (0.05 is     *)
(* 500), and round(x, n) is rounding of the exact value to the nearest     *)
(* unit, ties to even.  Representation error of the doubles (below 1e-15)  *)
(* is not modelled, except in _fuse_signals, whose combined_score is the   *)
(* one the doubles give on the extractors' scores (RoundCombined).         *)
(*                                                                         *)
(* Text.  A symptom text is the set of fragments it contains; the          *)
(* fragments are chosen so that none contains another, hence the           *)
(* substring test `keyword in text_lower` is membership of the keyword in  *)
(* the lowered fragments.  An emoji token and a checkbox token are         *)
(* strings.                                                                *)
(***************************************************************************)
EXTENDS Integers, Sequences, FiniteSets, Bags, TLC

VARIABLES
    call,               \* harness: the function under call and its arguments
    ret,                \* harness: what the call returned (Pending before it returns)
    log,                \* harness: the results of the repeated calls of `call`, in order
    loaded,             \* InferenceService._loaded of the singleton inference_service
    users,              \* table users: id -> consent flags
    health_inputs,      \* table health_inputs, in insertion (created_at) order
    risk_assessments,   \* table risk_assessments, in insertion order
    feedback,           \* table feedback: a bag of rows (the uuid key left out)
    ids,                \* per table, how many row keys (uuid4) have been issued
    now,                \* datetime.utcnow(), in days
    ticks,              \* how often the clock has advanced
    resp,               \* the answer of the last request when it read the statistics
    sumAdj,             \* history: per user, the adjustments process_feedback returned, added up
    procs,              \* concurrent requests: per request its position and its locals
    settings,           \* app.config.settings: the fields GeminiService reads
    gemini,             \* the singleton gemini_service: its client and _initialized
    request_counts,     \* SecurityMiddleware._request_counts: per client IP, the times kept
    clock               \* time.time(), in seconds

vars == <<call, ret, log, loaded, users, health_inputs, risk_assessments, feedback, ids,
          now, ticks, resp, sumAdj, procs, settings, gemini, request_counts, clock>>

None == "None"
\* Python's None where the value is otherwise a number (no metric, no relevance)
NoneNum == -1
\* Python's None where the value is otherwise a text (a set of fragments)
NoText == {None}

MaxOf(a, b) == IF a >= b THEN a ELSE b
MinOf(a, b) == IF a <= b THEN a ELSE b
Abs(x) == IF x < 0 THEN -x ELSE x

(***************************************************************************)
(* round(x, n) on an exact value x given in units `unit` times finer than  *)
(* the n-th decimal: the nearest multiple, ties to even (Python's round).  *)
(* The result is in the coarser unit.                                      *)
(***************************************************************************)
RoundHalfEven(x, unit) ==
    LET q == x \div unit
        r == x % unit
    IN  IF 2 * r > unit \/ (2 * r = unit /\ q % 2 = 1) THEN q + 1 ELSE q


(***************************************************************************)
(* InferenceService: the rule-based text extractor.                        *)
(***************************************************************************)
HIGH_CONCERN_KEYWORDS ==
    <<"chest pain", "shortness of breath", "severe headache", "vision loss",
      "numbness", "fainting", "blood", "heart palpitations",
      "difficulty breathing", "confusion">>

MODERATE_CONCERN_KEYWORDS ==
    <<"persistent pain", "recurring", "worsening", "chronic", "can't sleep",
      "losing weight", "always tired", "anxious", "depressed", "dizzy",
      "nausea", "fever">>

frequency_patterns ==
    <<"every day", "keeps happening", "won't go away", "for weeks", "getting worse">>

negative_emojis ==
    <<"nauseated face", "face with thermometer", "sneezing face", "dizzy",
      "anxious face", "crying face", "tired face", "sleeping face",
      "confounded face", "weary face">>

high_concern_checks == <<"chest_pain", "shortness_of_breath", "heart_palpitations">>
moderate_concern_checks == <<"headache", "fatigue", "insomnia", "anxiety", "dizziness">>

InSeq(x, s) == \E i \in 1..Len(s) : s[i] = x

\* str.lower() on the strings of the model: the ones written with capitals.
Lower(s) ==
    CASE s = "Chest Pain" -> "chest pain"
      [] s = "Getting Worse" -> "getting worse"
      [] s = "Weary Face" -> "weary face"
      [] OTHER -> s

\* `neg in e.lower()`: substring, on the emoji tokens of the model.
EmojiSubstrings == {<<"dizzy", "dizzy face">>, <<"tired face", "very tired face">>}
IsSubstring(needle, hay) == needle = hay \/ <<needle, hay>> \in EmojiSubstrings

Signal(desc, item, w, cat) ==
    [signal |-> <<desc, item>>, weight |-> w, category |-> cat]

\* score = min(score + delta, 1.0)
AddUncapped(score, delta) == score + delta
\* a deliberately wrong variant, for comparison: a sum past 1.0 wraps around instead of saturating
AddWrapped(score, delta) == (score + delta) % 1000
AddCapped(score, delta) == MinOf(score + delta, 1000)

\* for keyword in self.HIGH_CONCERN_KEYWORDS: ...
RECURSIVE ScanHigh(_, _, _)
ScanHigh(i, text_lower, st) ==
    IF i > Len(HIGH_CONCERN_KEYWORDS) THEN st
    ELSE LET keyword == HIGH_CONCERN_KEYWORDS[i] IN
         ScanHigh(i + 1, text_lower,
            IF keyword \in text_lower
            THEN [signals |-> Append(st.signals,
                       Signal("High-concern symptom mentioned", keyword, 800, "nlp")),
                  score |-> MaxOf(st.score, 800)]
            ELSE st)

\* for keyword in self.MODERATE_CONCERN_KEYWORDS: ...
RECURSIVE ScanModerate(_, _, _)
ScanModerate(i, text_lower, st) ==
    IF i > Len(MODERATE_CONCERN_KEYWORDS) THEN st
    ELSE LET keyword == MODERATE_CONCERN_KEYWORDS[i] IN
         ScanModerate(i + 1, text_lower,
            IF keyword \in text_lower
            THEN [signals |-> Append(st.signals,
                       Signal("Notable symptom mentioned", keyword, 500, "nlp")),
                  score |-> MaxOf(st.score, 500)]
            ELSE st)

\* for pattern in frequency_patterns: ...
RECURSIVE ScanFrequency(_, _, _)
ScanFrequency(i, text_lower, st) ==
    IF i > Len(frequency_patterns) THEN st
    ELSE LET pattern == frequency_patterns[i] IN
         ScanFrequency(i + 1, text_lower,
            IF pattern \in text_lower
            THEN [signals |-> Append(st.signals,
                       Signal("Persistence indicator detected", pattern, 400, "nlp")),
                  score |-> AddCapped(st.score, 150)]
            ELSE st)

\* if symptom_text: ... (None and "" are falsy; "" is the text with no fragment)
\* then the three keyword loops in the order of the source
ScanText(symptom_text, st) ==
    IF symptom_text = NoText \/ symptom_text = {} THEN st
    ELSE LET text_lower == {Lower(f) : f \in symptom_text} IN
         ScanFrequency(1, text_lower, ScanModerate(1, text_lower, ScanHigh(1, text_lower, st)))

\* for e in emoji_inputs: if any(neg in e.lower() for neg in negative_emojis): ...
RECURSIVE ScanEmoji(_, _, _)
ScanEmoji(i, emoji_inputs, st) ==
    IF i > Len(emoji_inputs) THEN st
    ELSE LET e == emoji_inputs[i] IN
         ScanEmoji(i + 1, emoji_inputs,
            IF \E k \in 1..Len(negative_emojis) : IsSubstring(negative_emojis[k], Lower(e))
            THEN [signals |-> Append(st.signals,
                       Signal("Negative health emoji", e, 300, "nlp")),
                  score |-> AddCapped(st.score, 100)]
            ELSE st)

\* for check in checkbox_selections: if ... elif ...
RECURSIVE ScanChecks(_, _, _)
ScanChecks(i, checkbox_selections, st) ==
    IF i > Len(checkbox_selections) THEN st
    ELSE LET check == checkbox_selections[i] IN
         ScanChecks(i + 1, checkbox_selections,
            IF InSeq(check, high_concern_checks)
            THEN [signals |-> Append(st.signals,
                       Signal("Critical symptom selected", check, 700, "nlp")),
                  score |-> MaxOf(st.score, 700)]
            ELSE IF InSeq(check, moderate_concern_checks)
            THEN [signals |-> Append(st.signals,
                       Signal("Symptom selected", check, 400, "nlp")),
                  score |-> MaxOf(st.score, 400)]
            ELSE st)

\* round(score, 3) of a score held in thousandths
Round3OfMilli(score) == RoundHalfEven(score * 1000, 1000)

\* a deliberately wrong variant, for comparison: the placeholder is always appended
AlwaysPlaceholder(signals, placeholder) == Append(signals, placeholder)

\* if not signals: signals.append(placeholder)
OrPlaceholder(signals, placeholder) ==
    IF signals = <<>> THEN <<placeholder>> ELSE signals

analyze_text_signals(symptom_text, emoji_inputs, checkbox_selections) ==
    LET st0 == [signals |-> <<>>, score |-> 0]
        st  == ScanChecks(1, checkbox_selections,
                  ScanEmoji(1, emoji_inputs, ScanText(symptom_text, st0)))
        signals == OrPlaceholder(st.signals,
                       Signal("No concerning patterns detected in text inputs", None, 0, "nlp"))
    IN  [signals |-> signals, score |-> Round3OfMilli(st.score)]


(***************************************************************************)
(* InferenceService: the rule-based time-series extractor.  A metrics      *)
(* dict is a record of its five keys, NoneNum for a key that is None or    *)
(* missing; the empty dict and None are NoMetrics.  sleep_hours is in      *)
(* tenths of an hour.                                                      *)
(***************************************************************************)
NoMetrics == [sleep_hours |-> -2, mood_score |-> -2, energy_level |-> -2,
              stress_level |-> -2, steps_count |-> -2]

Metrics(sleep, mood, energy, stress) ==
    [sleep_hours |-> sleep, mood_score |-> mood, energy_level |-> energy,
     stress_level |-> stress, steps_count |-> NoneNum]

TsSignal(desc, value, w) == Signal(desc, value, w, "timeseries")

\* a deliberately wrong variant, for comparison: three independent `if`s instead of if/elif
SleepSignalsEach(sleep) ==
    IF sleep = NoneNum THEN <<>>
    ELSE (IF sleep < 40 THEN <<TsSignal("Critically low sleep", sleep, 700)>> ELSE <<>>)
      \o (IF sleep < 60 THEN <<TsSignal("Below-average sleep", sleep, 400)>> ELSE <<>>)
      \o (IF sleep > 120 THEN <<TsSignal("Excessive sleep", sleep, 500)>> ELSE <<>>)

\* Sleep analysis
SleepSignals(sleep) ==
    IF sleep = NoneNum THEN <<>>
    ELSE IF sleep < 40 THEN <<TsSignal("Critically low sleep", sleep, 700)>>
    ELSE IF sleep < 60 THEN <<TsSignal("Below-average sleep", sleep, 400)>>
    ELSE IF sleep > 120 THEN <<TsSignal("Excessive sleep", sleep, 500)>>
    ELSE <<>>

\* Mood analysis
MoodSignals(mood) ==
    IF mood = NoneNum THEN <<>>
    ELSE IF mood <= 2 THEN <<TsSignal("Very low mood score", mood, 600)>>
    ELSE IF mood <= 4 THEN <<TsSignal("Low mood score", mood, 350)>>
    ELSE <<>>

\* Energy analysis
EnergySignals(energy) ==
    IF energy # NoneNum /\ energy <= 3
    THEN <<TsSignal("Low energy level", energy, 400)>> ELSE <<>>

\* Stress analysis
StressSignals(stress) ==
    IF stress # NoneNum /\ stress >= 8
    THEN <<TsSignal("High stress level", stress, 500)>> ELSE <<>>

\* [m.get(key) for m in historical_metrics if m.get(key)]: None and 0 are dropped
RECURSIVE Truthy(_, _)
Truthy(historical_metrics, key) ==
    IF historical_metrics = <<>> THEN <<>>
    ELSE LET v == Head(historical_metrics)[key]
             rest == Truthy(Tail(historical_metrics), key)
         IN  IF v = NoneNum \/ v = 0 THEN rest ELSE <<v>> \o rest

RECURSIVE SumSeq(_)
SumSeq(s) == IF s = <<>> THEN 0 ELSE Head(s) + SumSeq(Tail(s))

LastThree(s) == SubSeq(s, Len(s) - 2, Len(s))

\* a deliberately wrong variant, for comparison: recent_avg <= overall_avg * factor
DecliningOrEqual(xs, pct) ==
    SumSeq(LastThree(xs)) * Len(xs) * 100 <= SumSeq(xs) * 3 * pct

\* recent_avg < overall_avg * factor, with recent_avg = sum(xs[-3:]) / 3,
\* overall_avg = sum(xs) / len(xs) and factor = pct / 100, cleared of fractions
Declining(xs, pct) ==
    SumSeq(LastThree(xs)) * Len(xs) * 100 < SumSeq(xs) * 3 * pct

\* Historical trend analysis
TrendSignals(historical_metrics) ==
    IF historical_metrics = <<>> \/ Len(historical_metrics) < 3 THEN <<>>
    ELSE LET moods  == Truthy(historical_metrics, "mood_score")
             sleeps == Truthy(historical_metrics, "sleep_hours")
         IN  (IF Len(moods) >= 3 /\ Declining(moods, 70)
              THEN <<TsSignal("Declining mood trend detected", 0, 600)>> ELSE <<>>)
          \o (IF Len(sleeps) >= 3 /\ Declining(sleeps, 75)
              THEN <<TsSignal("Declining sleep trend detected", 0, 550)>> ELSE <<>>)

\* score = max(score, weight) after every append, from score = 0.0
RECURSIVE MaxWeight(_)
MaxWeight(signals) ==
    IF signals = <<>> THEN 0 ELSE MaxOf(Head(signals).weight, MaxWeight(Tail(signals)))

\* a deliberately wrong variant, for comparison: the history is analysed even when
\* there are no current-day metrics
analyze_timeseries_signals_with_history(daily_metrics, historical_metrics) ==
    LET found == (IF daily_metrics = NoMetrics THEN <<>>
                  ELSE SleepSignals(daily_metrics.sleep_hours)
                       \o MoodSignals(daily_metrics.mood_score)
                       \o EnergySignals(daily_metrics.energy_level)
                       \o StressSignals(daily_metrics.stress_level))
                 \o TrendSignals(historical_metrics)
        signals == OrPlaceholder(found,
                       IF daily_metrics = NoMetrics
                       THEN TsSignal("No daily metrics provided", 0, 0)
                       ELSE TsSignal("Daily metrics within normal range", 0, 0))
    IN  [signals |-> signals, score |-> Round3OfMilli(MaxWeight(found))]

analyze_timeseries_signals(daily_metrics, historical_metrics) ==
    IF daily_metrics = NoMetrics
    THEN [signals |-> <<TsSignal("No daily metrics provided", 0, 0)>>, score |-> 0]
    ELSE LET found == SleepSignals(daily_metrics.sleep_hours)
                      \o MoodSignals(daily_metrics.mood_score)
                      \o EnergySignals(daily_metrics.energy_level)
                      \o StressSignals(daily_metrics.stress_level)
                      \o TrendSignals(historical_metrics)
             signals == OrPlaceholder(found,
                            TsSignal("Daily metrics within normal range", 0, 0))
         IN  [signals |-> signals, score |-> Round3OfMilli(MaxWeight(found))]


(***************************************************************************)
(* Sorting by weight, descending and stable, as list.sort / sorted with    *)
(* key = weight and reverse=True: equal weights keep their input order.    *)
(***************************************************************************)
RECURSIVE InsertByWeight(_, _)
InsertByWeight(sorted, x) ==
    IF sorted = <<>> THEN <<x>>
    ELSE IF Head(sorted).weight >= x.weight
         THEN <<Head(sorted)>> \o InsertByWeight(Tail(sorted), x)
         ELSE <<x>> \o sorted

RECURSIVE SortByWeightDesc(_)
SortByWeightDesc(signals) ==
    IF signals = <<>> THEN <<>>
    ELSE InsertByWeight(SortByWeightDesc(SubSeq(signals, 1, Len(signals) - 1)),
                        signals[Len(signals)])

\* a deliberately wrong variant, for comparison: s[-n:], the last n instead of the first
TakeLast(s, n) == SubSeq(s, MaxOf(1, Len(s) - n + 1), Len(s))

\* s[:n]
Take(s, n) == SubSeq(s, 1, MinOf(n, Len(s)))

RECURSIVE CountAbove(_, _)
CountAbove(signals, w) ==
    IF signals = <<>> THEN 0
    ELSE (IF Head(signals).weight > w THEN 1 ELSE 0) + CountAbove(Tail(signals), w)

(***************************************************************************)
(* InferenceService._fuse_signals.  Scores are in thousandths; the         *)
(* weighted sum is in units of 1e-5 before it is rounded to 3 places.      *)
(***************************************************************************)
RISK_THRESHOLDS ==
    <<[level |-> "LOW",      low |-> 0,   high |-> 250],
      [level |-> "WEAK",     low |-> 250, high |-> 500],
      [level |-> "MODERATE", low |-> 500, high |-> 750],
      [level |-> "HIGH",     low |-> 750, high |-> 1000]>>

\* for level, (low, high) in RISK_THRESHOLDS.items(): if low <= s < high: ...; break
\* (the score s is in units of 1/unit thousandths)
RECURSIVE FirstBucket(_, _, _, _, _)
FirstBucket(table, i, s, unit, default) ==
    IF i > Len(table) THEN default
    ELSE IF table[i].low * unit <= s /\ s < table[i].high * unit
         THEN table[i].level
         ELSE FirstBucket(table, i + 1, s, unit, default)

\* risk_level of _fuse_signals, from combined_score in thousandths
fuse_risk_level(combined_score) ==
    IF combined_score >= 1000 THEN "HIGH" ELSE FirstBucket(RISK_THRESHOLDS, 1, combined_score, 1, "LOW")

\* _generate_explanation: the template of the level and the two counts it appends
generate_explanation(risk_level, nlp_signals, ts_signals) ==
    [template |-> risk_level,
     top_nlp |-> CountAbove(nlp_signals.signals, 300),
     top_ts |-> CountAbove(ts_signals.signals, 300)]

\* combined_score = round(min(nlp*0.55 + ts*0.45, 1.0), 3).  Extractor scores are
\* multiples of 0.05, so the exact sum often lies halfway between two thousandths;
\* there the double holding the sum decides.  It lies above the tie, except for
\* these pairs (nlp score, ts score), where it lies below.
FuseTiesRoundedDown ==
    {
     <<0, 950>>, <<100, 950>>, <<150, 500>>, <<150, 1000>>, <<200, 450>>, <<200, 950>>,
     <<250, 900>>, <<300, 850>>, <<350, 500>>, <<350, 800>>, <<400, 950>>, <<450, 700>>,
     <<500, 350>>, <<500, 850>>, <<600, 450>>, <<600, 750>>, <<700, 250>>, <<700, 350>>,
     <<700, 650>>, <<700, 950>>, <<850, 200>>, <<850, 700>>, <<850, 1000>>, <<900, 150>>,
     <<950, 0>>, <<950, 200>>, <<950, 300>>, <<950, 500>>, <<950, 600>>, <<950, 700>>,
     <<950, 900>>, <<950, 1000>>}

RoundCombined(nlp_score, ts_score) ==
    LET x == MinOf(nlp_score * 55 + ts_score * 45, 100000)
        q == x \div 100
        r == x % 100
    IN  IF r > 50 \/ (r = 50 /\ <<nlp_score, ts_score>> \notin FuseTiesRoundedDown)
        THEN q + 1 ELSE q

fuse_signals(nlp_signals, ts_signals) ==
    LET combined_score == RoundCombined(nlp_signals.score, ts_signals.score)
        risk_level == fuse_risk_level(combined_score)
        all_signals == SortByWeightDesc(nlp_signals.signals \o ts_signals.signals)
    IN  [risk_level |-> risk_level,
         confidence_score |-> combined_score,
         explanation_text |-> generate_explanation(risk_level, nlp_signals, ts_signals),
         signal_details |-> [nlp_score |-> nlp_signals.score,
                             timeseries_score |-> ts_signals.score,
                             combined_score |-> combined_score,
                             signals |-> Take(all_signals, 10)],
         model_version |-> "v0.1.0-prototype"]

(***************************************************************************)
(* WeightedFusionClassifier.classify.  nlp_score and ts_score are in       *)
(* thousandths, feedback_adjustment in ten-thousandths; raw_score and      *)
(* adjusted_score are exact in units of 1e-5 until the result rounds them, *)
(* the confidence is exact in units of 1e-6 until it is rounded.           *)
(***************************************************************************)
\* WeightedFusionClassifier.RISK_LEVELS zipped with its RISK_THRESHOLDS
CLASSIFIER_RISK_THRESHOLDS ==
    <<[level |-> "LOW",      low |-> 0,   high |-> 250],
      [level |-> "WEAK",     low |-> 250, high |-> 500],
      [level |-> "MODERATE", low |-> 500, high |-> 750],
      [level |-> "HIGH",     low |-> 750, high |-> 1000]>>

\* a deliberately wrong variant, for comparison: max(0.0, raw_score + feedback_adjustment), no upper clip
ClipBelowOnly(x) == MaxOf(0, x)

\* adjusted_score = max(0.0, min(1.0, raw_score + feedback_adjustment)), in 1e-5
ClipUnit(x) == MaxOf(0, MinOf(100000, x))

\* a deliberately wrong variant, for comparison: the buckets closed at the top, low < s <= high
classify_risk_level_closed_above(adjusted_score) ==
    IF adjusted_score >= 100000 THEN "HIGH"
    ELSE IF adjusted_score <= 25000 THEN "LOW"
    ELSE IF adjusted_score <= 50000 THEN "WEAK"
    ELSE IF adjusted_score <= 75000 THEN "MODERATE"
    ELSE "HIGH"

\* a deliberately wrong variant, for comparison: without the final `if adjusted_score >= 1.0`
classify_risk_level_loop_only(adjusted_score) ==
    FirstBucket(CLASSIFIER_RISK_THRESHOLDS, 1, adjusted_score, 100, "LOW")

\* risk_level of classify, from the unrounded adjusted_score in 1e-5
classify_risk_level(adjusted_score) ==
    IF adjusted_score >= 100000 THEN "HIGH"
    ELSE FirstBucket(CLASSIFIER_RISK_THRESHOLDS, 1, adjusted_score, 100, "LOW")

RECURSIVE CountAtLeast(_, _)
CountAtLeast(signals, w) ==
    IF signals = <<>> THEN 0
    ELSE (IF Head(signals).weight >= w THEN 1 ELSE 0) + CountAtLeast(Tail(signals), w)

\* _build_explanation: the template of the level and the two counts it appends
build_explanation(risk_level, nlp_signals, ts_signals) ==
    [template |-> risk_level,
     notable_nlp |-> CountAtLeast(nlp_signals, 400),
     notable_ts |-> CountAtLeast(ts_signals, 400)]

\* confidence = round(0.5*signal_agreement + 0.3*data_richness + 0.2*adjusted_score, 3)
classify_confidence(nlp_score, ts_score, n_signals, adjusted_score) ==
    LET signal_agreement == 1000 - Abs(nlp_score - ts_score)     \* thousandths
        data_richness == MinOf(10, n_signals)                    \* tenths
    IN  RoundHalfEven(500 * signal_agreement + 30000 * data_richness + 2 * adjusted_score, 1000)

classify(nlp_score, ts_score, nlp_signals, ts_signals, feedback_adjustment) ==
    LET raw_score == nlp_score * 55 + ts_score * 45
        adjusted_score == ClipUnit(raw_score + feedback_adjustment * 10)
        risk_level == classify_risk_level(adjusted_score)
        confidence == classify_confidence(nlp_score, ts_score,
                          Len(nlp_signals) + Len(ts_signals), adjusted_score)
        all_signals == SortByWeightDesc(nlp_signals \o ts_signals)
    IN  [risk_level |-> risk_level,
         confidence_score |-> confidence,
         raw_score |-> RoundHalfEven(raw_score, 100),
         adjusted_score |-> RoundHalfEven(adjusted_score, 100),
         explanation_text |-> build_explanation(risk_level, nlp_signals, ts_signals),
         signal_breakdown |-> [nlp_contribution |-> RoundHalfEven(nlp_score * 55, 100),
                               ts_contribution |-> RoundHalfEven(ts_score * 45, 100),
                               feedback_adjustment |-> feedback_adjustment,
                               signal_agreement |-> 1000 - Abs(nlp_score - ts_score),
                               top_signals |-> Take(all_signals, 5)]]


(***************************************************************************)
(* State of the parts a specification leaves alone.                        *)
(***************************************************************************)
NoCall == [fn |-> "none"]
NoResp == [op |-> "none"]
Pending == [status |-> "pending"]
Returned(v) == [status |-> "returned", value |-> v]

HarnessIdle == call = NoCall /\ ret = Pending /\ log = <<>>
\* GEMINI_API_KEY: Optional[str] = None; GeminiService.__init__
InsightsIdle ==
    /\ settings = [GEMINI_API_KEY |-> None]
    /\ gemini = [client |-> None, initialized |-> FALSE]
\* SecurityMiddleware.__init__: defaultdict(list)
ClientIps == {"10.0.0.1", "unknown"}
MiddlewareIdle ==
    /\ request_counts = [ip \in ClientIps |-> <<>>]
    /\ clock = 0
SystemIdle ==
    /\ loaded = FALSE
    /\ users = <<>>
    /\ health_inputs = <<>>
    /\ risk_assessments = <<>>
    /\ feedback = EmptyBag
    /\ ids = [users |-> 0, health_inputs |-> 0, risk_assessments |-> 0, feedback |-> 0]
    /\ now = 0
    /\ ticks = 0
    /\ resp = NoResp
    /\ sumAdj = <<>>
    /\ procs = <<>>
    /\ InsightsIdle
    /\ MiddlewareIdle
dbVars == <<users, health_inputs, risk_assessments, feedback, ids>>
clockVars == <<now, ticks>>
histVars == <<sumAdj>>
insightVars == <<settings, gemini>>
middlewareVars == <<request_counts, clock>>
systemVars == <<loaded, dbVars, clockVars, resp, histVars, procs, insightVars, middlewareVars>>

(***************************************************************************)
(* SpecFusion: the two fusion functions, each called once on arguments     *)
(* drawn from the grids below.  The grids hold the bucket boundaries, the  *)
(* values around them and values outside [0, 1].                           *)
(***************************************************************************)
MaxSignals == 3

\* signals of the given weights
RECURSIVE SignalsOf(_, _)
SignalsOf(ws, cat) ==
    IF ws = <<>> THEN <<>>
    ELSE SignalsOf(SubSeq(ws, 1, Len(ws) - 1), cat)
         \o <<Signal("signal", cat, ws[Len(ws)], cat)>>

RECURSIVE Repeat(_, _)
Repeat(w, n) == IF n = 0 THEN <<>> ELSE <<w>> \o Repeat(w, n - 1)

\* weight lists: none, short ones, and one that fills the richness term on its own
WeightLists ==
    {<<>>} \cup {Repeat(w, n) : w \in {300, 800}, n \in 1..MaxSignals}
           \cup {<<500, 800, 300>>, Repeat(400, 4 * MaxSignals)}

ClassifyScores == {-500, 0, 250, 454, 500, 800, 1000, 3000}
ClassifyAdjustments ==
    {-20000, -1000, -5, 0, 5, 500, 1500, 2495, 2500, 5000, 7500, 10000, 20000}
FuseScores == {0, 250, 400, 500, 700, 750, 800, 950, 1000}

ClassifyCalls ==
    [fn : {"classify"}, nlp_score : ClassifyScores, ts_score : ClassifyScores,
     nlp_signals : {SignalsOf(ws, "nlp") : ws \in WeightLists},
     ts_signals : {SignalsOf(ws, "timeseries") : ws \in {<<>>, <<700>>, Repeat(350, 2 * MaxSignals)}},
     feedback_adjustment : ClassifyAdjustments]

FuseCalls ==
    [fn : {"_fuse_signals"},
     nlp_signals : [signals : {SignalsOf(ws, "nlp") : ws \in WeightLists}, score : FuseScores],
     ts_signals : [signals : {SignalsOf(ws, "timeseries") : ws \in {<<700>>, <<350, 600>>}},
                   score : FuseScores]]

(***************************************************************************)
(* ExplainabilityEngine._explain_signals.  Weights are in thousandths.     *)
(***************************************************************************)
\* a deliberately wrong variant, for comparison: the bands open at their lower ends
ImportanceAbove(weight) ==
    IF weight > 700 THEN "high" ELSE IF weight > 500 THEN "moderate" ELSE "low"

\* "high" if weight >= 0.7 else "moderate" if weight >= 0.5 else "low"
Importance(weight) ==
    IF weight >= 700 THEN "high" ELSE IF weight >= 500 THEN "moderate" ELSE "low"

importance_order == [high |-> 0, moderate |-> 1, low |-> 2]

\* for signal in signals: if signal.get("weight", 0) >= 0.3: explanations.append(...)
RECURSIVE ExplainEach(_, _)
ExplainEach(signals, source) ==
    IF signals = <<>> THEN <<>>
    ELSE LET signal == Head(signals)
         IN  (IF signal.weight >= 300
              THEN <<[source |-> source, finding |-> signal.signal,
                      importance |-> Importance(signal.weight)]>>
              ELSE <<>>)
             \o ExplainEach(Tail(signals), source)

\* list.sort(key=importance_order) is stable: an entry goes behind the entries of
\* the same importance that came before it
RECURSIVE InsertByImportance(_, _)
InsertByImportance(sorted, x) ==
    IF sorted = <<>> THEN <<x>>
    ELSE IF importance_order[Head(sorted).importance] <= importance_order[x.importance]
         THEN <<Head(sorted)>> \o InsertByImportance(Tail(sorted), x)
         ELSE <<x>> \o sorted

RECURSIVE SortByImportance(_)
SortByImportance(explanations) ==
    IF explanations = <<>> THEN <<>>
    ELSE InsertByImportance(
             SortByImportance(SubSeq(explanations, 1, Len(explanations) - 1)),
             explanations[Len(explanations)])

explain_signals(nlp_signals, ts_signals) ==
    LET explanations == ExplainEach(nlp_signals, "Your symptom description")
                        \o ExplainEach(ts_signals, "Your daily metrics")
    IN  Take(SortByImportance(explanations), 8)

\* signals of named weights, so that entries of one importance can be told apart
RECURSIVE NamedSignals(_, _, _)
NamedSignals(ws, cat, i) ==
    IF ws = <<>> THEN <<>>
    ELSE <<Signal("signal", i, Head(ws), cat)>> \o NamedSignals(Tail(ws), cat, i + 1)

ExplainCalls ==
    [fn : {"_explain_signals"},
     nlp_signals : {NamedSignals(ws, "nlp", 1) :
                      ws \in WeightLists \cup {<<0>>, <<300, 400, 299, 800, 350, 700, 500, 499>>}},
     ts_signals : {NamedSignals(ws, "timeseries", 1) :
                      ws \in {<<>>, <<700>>, <<0>>, <<550, 350, 600, 290, 700>>,
                              Repeat(350, 2 * MaxSignals)}}]

\* classify on what the two extractors return for one input, with no feedback yet
ExtractedCall(symptom_text, emoji_inputs, checkbox_selections, daily_metrics, historical_metrics) ==
    LET nlp == analyze_text_signals(symptom_text, emoji_inputs, checkbox_selections)
        ts == analyze_timeseries_signals(daily_metrics, historical_metrics)
    IN  [fn |-> "classify", nlp_score |-> nlp.score, ts_score |-> ts.score,
         nlp_signals |-> nlp.signals, ts_signals |-> ts.signals, feedback_adjustment |-> 0]

ExtractedCalls ==
    {ExtractedCall(symptom_text, <<>>, checkbox_selections, daily_metrics, <<>>) :
        symptom_text \in {NoText, {}, {"Chest Pain", "every day"}},
        checkbox_selections \in {<<>>, <<"headache">>},
        daily_metrics \in {NoMetrics, Metrics(39, 2, 3, 8)}}

InitFusion ==
    /\ call \in ClassifyCalls \cup FuseCalls \cup ExtractedCalls \cup ExplainCalls
    /\ ret = Pending
    /\ log = <<>>
    /\ SystemIdle

Classify ==
    /\ call.fn = "classify" /\ ret = Pending
    /\ ret' = Returned(classify(call.nlp_score, call.ts_score, call.nlp_signals,
                                call.ts_signals, call.feedback_adjustment))
    /\ UNCHANGED <<call, log, systemVars>>

FuseSignals ==
    /\ call.fn = "_fuse_signals" /\ ret = Pending
    /\ ret' = Returned(fuse_signals(call.nlp_signals, call.ts_signals))
    /\ UNCHANGED <<call, log, systemVars>>

ExplainSignals ==
    /\ call.fn = "_explain_signals" /\ ret = Pending
    /\ ret' = Returned(explain_signals(call.nlp_signals, call.ts_signals))
    /\ UNCHANGED <<call, log, systemVars>>

NextFusion == Classify \/ FuseSignals \/ ExplainSignals
SpecFusion == InitFusion /\ [][NextFusion]_vars

ReturnedFrom(fn) == call.fn = fn /\ ret.status = "returned"

\* the level the four fixed buckets give a score s held in units of 1/one
BucketOf(s, one) ==
    CASE 0 <= s /\ 4 * s < one -> "LOW"
      [] one <= 4 * s /\ 2 * s < one -> "WEAK"
      [] one <= 2 * s /\ 4 * s < 3 * one -> "MODERATE"
      [] 3 * one <= 4 * s /\ s <= one -> "HIGH"

\* C2: for every adjusted score s in [0,1] the fusion step (classify on its clipped
\* raw_score + feedback_adjustment, _fuse_signals on its combined_score) returns LOW
\* iff 0 <= s < 0.25, WEAK iff 0.25 <= s < 0.5, MODERATE iff 0.5 <= s < 0.75 and
\* HIGH iff 0.75 <= s <= 1.0.
C2_RiskLevelBuckets ==
    /\ ReturnedFrom("classify") =>
          LET s == ClipUnit(call.nlp_score * 55 + call.ts_score * 45
                            + call.feedback_adjustment * 10)
          IN  ret.value.risk_level = BucketOf(s, 100000)
    /\ ReturnedFrom("_fuse_signals") =>
          ret.value.risk_level = BucketOf(ret.value.signal_details.combined_score, 1000)

\* C2 witness: classify has returned WEAK for an adjusted score of exactly 0.25
C2_Witness ==
    /\ ReturnedFrom("classify")
    /\ call.nlp_score \in 0..1000 /\ call.ts_score \in 0..1000
    /\ ClipUnit(call.nlp_score * 55 + call.ts_score * 45 + call.feedback_adjustment * 10) = 25000
    /\ ret.value.adjusted_score = 250
    /\ ret.value.risk_level = "WEAK"

\* C4: every call of classify, also one with nlp_score or ts_score outside [0,1],
\* returns confidence_score and adjusted_score in [0,1].
C4_ClassifyOutputsInUnitRange ==
    ReturnedFrom("classify") =>
        /\ ret.value.confidence_score \in 0..1000
        /\ ret.value.adjusted_score \in 0..1000


RISK_LEVELS == <<"LOW", "WEAK", "MODERATE", "HIGH">>
\* the position of a level in RISK_LEVELS
LevelRank(level) == CHOOSE i \in DOMAIN RISK_LEVELS : RISK_LEVELS[i] = level

\* classify on the arguments of the call, with another feedback_adjustment
ClassifyWith(feedback_adjustment) ==
    classify(call.nlp_score, call.ts_score, call.nlp_signals, call.ts_signals,
             feedback_adjustment)

\* C12: for fixed extractor scores and signals, if a1 <= a2 then the risk_level
\* classify returns with feedback_adjustment a1 is not higher, in the order
\* LOW < WEAK < MODERATE < HIGH, than the one it returns with a2.
C12_LevelMonotoneInAdjustment ==
    ReturnedFrom("classify") =>
        \A a1 \in ClassifyAdjustments :
            /\ a1 <= call.feedback_adjustment =>
                  LevelRank(ClassifyWith(a1).risk_level) <= LevelRank(ret.value.risk_level)
            /\ call.feedback_adjustment <= a1 =>
                  LevelRank(ret.value.risk_level) <= LevelRank(ClassifyWith(a1).risk_level)

\* C12 witness: the same scores are LOW with a smaller adjustment and HIGH, at an
\* adjusted score clipped to 1.0, with the adjustment of the call
C12_Witness ==
    /\ ReturnedFrom("classify")
    /\ ret.value.risk_level = "HIGH" /\ ret.value.adjusted_score = 1000
    /\ \E a1 \in ClassifyAdjustments :
          a1 < call.feedback_adjustment /\ ClassifyWith(a1).risk_level = "LOW"

(***************************************************************************)
(* SpecExtract: the two extractors, each called once on arguments drawn    *)
(* from the sets below.                                                    *)
(***************************************************************************)
MaxEmoji == 2
MaxChecks == 2
MaxHist == 4

SeqsUpTo(S, n) == UNION {[1..k -> S] : k \in 0..n}

\* two high-concern keywords, a moderate one, two persistence phrases, no keyword
TextFragments ==
    {"Chest Pain", "blood", "worsening", "every day", "Getting Worse", "feeling fine"}
EmojiTokens == {"very tired face", "Weary Face", "grinning face"}
CheckTokens == {"chest_pain", "headache", "other"}

TextCalls ==
    [fn : {"_analyze_text_signals"},
     symptom_text : {NoText} \cup SUBSET TextFragments,
     emoji_inputs : SeqsUpTo(EmojiTokens, MaxEmoji),
     checkbox_selections : SeqsUpTo(CheckTokens, MaxChecks)]

\* sleep in tenths of an hour, on and around the thresholds 4, 6 and 12 hours
SleepValues == {NoneNum, 0, 39, 40, 59, 60, 75, 120, 121}
MoodValues == {NoneNum, 1, 2, 3, 4, 5, 8}
EnergyValues == {NoneNum, 3, 4}
StressValues == {NoneNum, 7, 8}

DailyMetrics ==
    {NoMetrics} \cup {Metrics(sl, mo, en, st) :
                        sl \in SleepValues, mo \in MoodValues,
                        en \in EnergyValues, st \in StressValues}
FewDailyMetrics ==
    {NoMetrics, Metrics(NoneNum, NoneNum, NoneNum, NoneNum), Metrics(75, 5, 4, 7),
     Metrics(39, 8, 4, 7)}

HistDays ==
    {Metrics(70, 8, NoneNum, NoneNum), Metrics(30, 2, NoneNum, NoneNum),
     Metrics(30, 8, NoneNum, NoneNum), Metrics(0, 2, NoneNum, NoneNum),
     Metrics(NoneNum, NoneNum, NoneNum, NoneNum)}

TsCalls ==
    [fn : {"_analyze_timeseries_signals"}, daily_metrics : DailyMetrics,
     historical_metrics : {<<>>}]
    \cup
    [fn : {"_analyze_timeseries_signals"}, daily_metrics : FewDailyMetrics,
     historical_metrics : SeqsUpTo(HistDays, MaxHist)]

InitExtract ==
    /\ call \in TextCalls \cup TsCalls
    /\ ret = Pending
    /\ log = <<>>
    /\ SystemIdle

AnalyzeText ==
    /\ call.fn = "_analyze_text_signals" /\ ret = Pending
    /\ ret' = Returned(analyze_text_signals(call.symptom_text, call.emoji_inputs,
                                            call.checkbox_selections))
    /\ UNCHANGED <<call, log, systemVars>>

AnalyzeTimeseries ==
    /\ call.fn = "_analyze_timeseries_signals" /\ ret = Pending
    /\ ret' = Returned(analyze_timeseries_signals(call.daily_metrics, call.historical_metrics))
    /\ UNCHANGED <<call, log, systemVars>>

NextExtract == AnalyzeText \/ AnalyzeTimeseries
SpecExtract == InitExtract /\ [][NextExtract]_vars

\* C5: for every combination of text, emoji tokens, checkbox tokens, current and
\* historical metrics, the score of either extractor lies in [0,1].
C5_ExtractorScoresInUnitRange ==
    (ReturnedFrom("_analyze_text_signals") \/ ReturnedFrom("_analyze_timeseries_signals"))
        => ret.value.score \in 0..1000

\* C5 witness: a text call whose additive deltas would carry the score past 1.0
\* (a high-concern keyword, two persistence phrases, a negative emoji) returned 1.0
C5_Witness ==
    /\ ReturnedFrom("_analyze_text_signals")
    /\ {"Chest Pain", "every day", "Getting Worse"} \subseteq call.symptom_text
    /\ Len(call.emoji_inputs) >= 1 /\ call.emoji_inputs[1] = "Weary Face"
    /\ ret.value.score = 1000
    /\ Len(ret.value.signals) >= 4

\* the fragments of the model that hold a high-concern keyword
HighFragments == {f \in TextFragments : InSeq(Lower(f), HIGH_CONCERN_KEYWORDS)}

\* the symptom text with one more fragment (None and "" have no fragment)
WithFragment(symptom_text, f) ==
    IF symptom_text = NoText THEN {f} ELSE symptom_text \cup {f}

\* _analyze_text_signals on the arguments of the call, with one more fragment in the text
AnalyzeTextWith(f) ==
    analyze_text_signals(WithFragment(call.symptom_text, f), call.emoji_inputs,
                         call.checkbox_selections)

\* C13: for any fixed emoji tokens, checkbox tokens and remaining text, adding a
\* further high-concern keyword match to the symptom text never decreases the
\* score _analyze_text_signals returns.
C13_HighKeywordNeverLowersScore ==
    ReturnedFrom("_analyze_text_signals") =>
        \A f \in HighFragments :
            f \notin call.symptom_text => AnalyzeTextWith(f).score >= ret.value.score

\* C13 witness: a text with a high-concern keyword, a moderate one and two
\* persistence phrases scored 1.0, and a second high-concern keyword adds a signal
C13_Witness ==
    /\ ReturnedFrom("_analyze_text_signals")
    /\ call.symptom_text = {"Chest Pain", "worsening", "every day", "Getting Worse"}
    /\ ret.value.score = 1000
    /\ Len(AnalyzeTextWith("blood").signals) = Len(ret.value.signals) + 1
    /\ AnalyzeTextWith("blood").score = 1000

\* C13: the keyword raises the score of a text that had none
C13_WitnessRaised ==
    /\ ReturnedFrom("_analyze_text_signals")
    /\ call.symptom_text = {"worsening", "every day", "Getting Worse"}
    /\ call.emoji_inputs = <<>> /\ call.checkbox_selections = <<>>
    /\ ret.value.score = 800
    /\ AnalyzeTextWith("blood").score = 1000


(***************************************************************************)
(* InferenceService.assess_risk.  `elapsed` is what time.time() - start    *)
(* comes to, in hundredths of a millisecond: the wall clock decides it.    *)
(* _ensure_models_loaded sets _loaded and logs; the result does not read   *)
(* it.                                                                     *)
(***************************************************************************)
WithField(r, k, v) == [x \in DOMAIN r \cup {k} |-> IF x = k THEN v ELSE r[x]]

\* a deliberately wrong variant, for comparison: a first call, before the models are loaded, answers the default level
assess_risk_cold_start(self_loaded, symptom_text, emoji_inputs, checkbox_selections, daily_metrics, historical_metrics, elapsed) ==
    LET nlp_signals == analyze_text_signals(symptom_text, emoji_inputs, checkbox_selections)
        ts_signals == analyze_timeseries_signals(daily_metrics, historical_metrics)
        result == fuse_signals(nlp_signals, ts_signals)
    IN  WithField(IF self_loaded THEN result ELSE [result EXCEPT !.risk_level = "LOW"],
                  "inference_time_ms", elapsed)

assess_risk(self_loaded, symptom_text, emoji_inputs, checkbox_selections, daily_metrics, historical_metrics, elapsed) ==
    LET nlp_signals == analyze_text_signals(symptom_text, emoji_inputs, checkbox_selections)
        ts_signals == analyze_timeseries_signals(daily_metrics, historical_metrics)
        result == fuse_signals(nlp_signals, ts_signals)
    IN  WithField(result, "inference_time_ms", elapsed)

(***************************************************************************)
(* SpecAssess: assess_risk called repeatedly on the arguments in `call`,   *)
(* with calls on other arguments in between; `log` keeps what the calls    *)
(* on `call` returned.                                                     *)
(***************************************************************************)
MaxCalls == 3
\* the elapsed times the wall clock gives
ElapsedValues == {1, 2}

AssessCalls ==
    [fn : {"assess_risk"},
     symptom_text : {NoText, {"Chest Pain"}, {"worsening", "every day"}},
     emoji_inputs : {<<>>, <<"Weary Face">>},
     checkbox_selections : {<<>>, <<"headache", "chest_pain">>},
     daily_metrics : {NoMetrics, Metrics(NoneNum, NoneNum, NoneNum, NoneNum),
                      Metrics(39, 2, 3, 8)},
     historical_metrics : {<<>>, <<Metrics(70, 8, NoneNum, NoneNum), Metrics(30, 2, NoneNum, NoneNum),
                                   Metrics(30, 2, NoneNum, NoneNum), Metrics(30, 2, NoneNum, NoneNum)>>}]

AssessRiskOf(c, elapsed) ==
    assess_risk(loaded, c.symptom_text, c.emoji_inputs, c.checkbox_selections,
                c.daily_metrics, c.historical_metrics, elapsed)

InitAssess ==
    /\ call \in AssessCalls
    /\ ret = Pending
    /\ log = <<>>
    /\ SystemIdle

\* a call of assess_risk on the arguments in `call`
AssessRisk ==
    /\ Len(log) < MaxCalls
    /\ \E elapsed \in ElapsedValues :
          /\ ret' = Returned(AssessRiskOf(call, elapsed))
          /\ log' = Append(log, AssessRiskOf(call, elapsed))
    /\ loaded' = TRUE
    /\ UNCHANGED <<call, dbVars, clockVars, resp, histVars, procs, insightVars, middlewareVars>>

\* a call of assess_risk on other arguments, by another caller
AssessRiskOther ==
    /\ ~loaded
    /\ \E c \in AssessCalls, elapsed \in ElapsedValues :
          c # call /\ AssessRiskOf(c, elapsed).risk_level \in {"LOW", "WEAK", "MODERATE", "HIGH"}
    /\ loaded' = TRUE
    /\ UNCHANGED <<call, ret, log, dbVars, clockVars, resp, histVars, procs, insightVars, middlewareVars>>

NextAssess == AssessRisk \/ AssessRiskOther
SpecAssess == InitAssess /\ [][NextAssess]_vars

\* C3 (as claimed): the confidence_score assess_risk returns is
\* 0.5*signal_agreement + 0.3*data_richness + 0.2*adjusted_score (to the 3 places it
\* is rounded to), with signal_agreement = 1 - |text_score - temporal_score| and
\* data_richness = min(1, (text signals + temporal signals)/10).
C3_ConfidenceFormula ==
    \A i \in 1..Len(log) :
        LET nlp == analyze_text_signals(call.symptom_text, call.emoji_inputs,
                                        call.checkbox_selections)
            ts == analyze_timeseries_signals(call.daily_metrics, call.historical_metrics)
            agreement == 1000 - Abs(nlp.score - ts.score)
            richness == MinOf(10, Len(nlp.signals) + Len(ts.signals))
            adjusted == ClipUnit(nlp.score * 55 + ts.score * 45)
            claimed == 500 * agreement + 30000 * richness + 2 * adjusted
        IN  Abs(log[i].confidence_score * 1000 - claimed) <= 1000

SameButTime(r1, r2) ==
    /\ DOMAIN r1 = DOMAIN r2
    /\ \A k \in DOMAIN r1 \ {"inference_time_ms"} : r1[k] = r2[k]

\* C6 (as claimed): two calls of assess_risk with identical arguments return
\* identical results in every field.
C6_IdenticalResults ==
    \A i, j \in 1..Len(log) : log[i] = log[j]

\* C6 (amended): two calls of assess_risk with identical arguments return results
\* that agree in every field but inference_time_ms, whatever was called before.
C6_IdenticalButTime ==
    \A i, j \in 1..Len(log) : SameButTime(log[i], log[j])

\* C6 witness: two calls on the same arguments, the first before the models were
\* loaded, gave the same non-default level and different inference times
C6_Witness ==
    /\ Len(log) >= 2
    /\ log[1].inference_time_ms # log[2].inference_time_ms
    /\ log[1].risk_level = "HIGH" /\ log[2].risk_level = "HIGH"


(***************************************************************************)
(* InputSanitizer, on the texts and tokens of the model.  An emoji         *)
(* character is written as its name between colons (":weary_face:").       *)
(***************************************************************************)
\* fragments bleach.clean and the SQL / XSS patterns remove entirely
RemovedFragments == {"<b>", "</b>", "drop", "javascript:"}

\* one fragment through sanitize_text: the quote pattern removes the apostrophe
SanitizeFragment(f) ==
    CASE f = "can't sleep" -> "cant sleep"
      [] f = "won't go away" -> "wont go away"
      [] OTHER -> f

sanitize_text(text) ==
    IF text = NoText THEN NoText
    ELSE LET kept == {SanitizeFragment(f) : f \in text \ RemovedFragments}
         IN  IF kept = {} THEN NoText ELSE kept

\* emoji.is_emoji(e) and emoji.demojize(e, delimiters=("", "")), "_" replaced by " "
EmojiCharacters == {":weary_face:", ":sleeping_face:", ":smiling_face:"}
Demojized(e) ==
    CASE e = ":weary_face:" -> "weary face"
      [] e = ":sleeping_face:" -> "sleeping face"
      [] OTHER -> "smiling face"

RECURSIVE sanitize_emoji_inputs(_)
sanitize_emoji_inputs(emojis) ==
    IF emojis = <<>> THEN <<>>
    ELSE LET e == Head(emojis)
             clean == sanitize_text({e})
         IN  (IF e \in EmojiCharacters THEN <<Demojized(e)>>
              ELSE IF clean # NoText THEN <<CHOOSE c \in clean : TRUE>>
              ELSE <<>>) \o sanitize_emoji_inputs(Tail(emojis))

ALLOWED_CATEGORIES ==
    {"headache", "fatigue", "nausea", "dizziness", "insomnia",
     "anxiety", "joint_pain", "muscle_ache", "shortness_of_breath",
     "chest_pain", "stomach_pain", "back_pain", "fever", "cough",
     "sore_throat", "congestion", "appetite_change", "weight_change",
     "skin_changes", "vision_changes", "mood_changes", "concentration",
     "memory", "digestive_issues", "heart_palpitations", "sweating",
     "numbness", "tingling", "other"}

\* s.lower().strip() on the checkbox tokens of the model
LowerStrip(sel) ==
    CASE sel = "Chest_Pain " -> "chest_pain"
      [] OTHER -> sel

RECURSIVE sanitize_checkbox_selections(_)
sanitize_checkbox_selections(selections) ==
    IF selections = <<>> THEN <<>>
    ELSE (IF LowerStrip(Head(selections)) \in ALLOWED_CATEGORIES
          THEN <<LowerStrip(Head(selections))>> ELSE <<>>)
         \o sanitize_checkbox_selections(Tail(selections))

sanitize_health_input(symptom_text, emoji_inputs, checkbox_selections) ==
    [symptom_text |-> sanitize_text(symptom_text),
     emoji_inputs |-> sanitize_emoji_inputs(emoji_inputs),
     checkbox_selections |-> sanitize_checkbox_selections(checkbox_selections)]

(***************************************************************************)
(* The tables.  users, health_inputs and risk_assessments are sequences of *)
(* rows in insertion order; created_at is the clock in days, and rows of   *)
(* one day are ordered as they were inserted.  feedback is a bag of rows   *)
(* without their key, which nothing reads.  Columns no handler of the      *)
(* model reads (anonymous_id, notification_preferences, water_intake_ml,   *)
(* wearable_data, input_source, comment, used_for_training, the users'     *)
(* timestamps) are left out.                                               *)
(***************************************************************************)
\* query(...).first() when no row matches
NoRow == [id |-> 0]

RECURSIVE SelectSeq2(_, _, _)
\* the rows of `table` for which column `col` is `v`, in table order
SelectSeq2(table, col, v) ==
    IF table = <<>> THEN <<>>
    ELSE (IF Head(table)[col] = v THEN <<Head(table)>> ELSE <<>>)
         \o SelectSeq2(Tail(table), col, v)

\* db.query(T).filter(T.id == id).first()
FirstById(table, id) ==
    LET found == SelectSeq2(table, "id", id)
    IN  IF found = <<>> THEN NoRow ELSE found[1]

UserRow(id, consent) ==
    [id |-> id,
     consent_data_storage |-> consent.consent_data_storage,
     consent_ml_usage |-> consent.consent_ml_usage]

HealthInputRow(id, user_id, created_at, sanitized, daily_metrics) ==
    [id |-> id, user_id |-> user_id, created_at |-> created_at,
     symptom_text |-> sanitized.symptom_text,
     emoji_inputs |-> sanitized.emoji_inputs,
     checkbox_selections |-> sanitized.checkbox_selections,
     sleep_hours |-> IF daily_metrics = NoMetrics THEN NoneNum ELSE daily_metrics.sleep_hours,
     mood_score |-> IF daily_metrics = NoMetrics THEN NoneNum ELSE daily_metrics.mood_score,
     energy_level |-> IF daily_metrics = NoMetrics THEN NoneNum ELSE daily_metrics.energy_level,
     stress_level |-> IF daily_metrics = NoMetrics THEN NoneNum ELSE daily_metrics.stress_level,
     steps_count |-> IF daily_metrics = NoMetrics THEN NoneNum ELSE daily_metrics.steps_count,
     is_processed |-> "pending"]

RiskAssessmentRow(id, user_id, created_at, result, input_ids) ==
    [id |-> id, user_id |-> user_id, created_at |-> created_at,
     risk_level |-> result.risk_level,
     confidence_score |-> result.confidence_score,
     explanation_text |-> result.explanation_text,
     signal_details |-> result.signal_details,
     model_version |-> result.model_version,
     inference_time_ms |-> result.inference_time_ms,
     input_ids |-> input_ids,
     feedback_received |-> "none"]

\* a deliberately wrong variant, for comparison: the row is filed under the first user, whoever sent it
FeedbackRowMisfiled(user_id, assessment_id, created_at, feedback_type, relevance_score, adjusted_risk_level, adjustment) ==
    [user_id |-> "u1", assessment_id |-> assessment_id, created_at |-> created_at,
     feedback_type |-> feedback_type, relevance_score |-> relevance_score,
     adjusted_risk_level |-> adjusted_risk_level,
     confidence_adjustment |-> adjustment]

FeedbackRow(user_id, assessment_id, created_at, feedback_type, relevance_score, adjusted_risk_level, adjustment) ==
    [user_id |-> user_id, assessment_id |-> assessment_id, created_at |-> created_at,
     feedback_type |-> feedback_type, relevance_score |-> relevance_score,
     adjusted_risk_level |-> adjusted_risk_level,
     confidence_adjustment |-> adjustment]


(***************************************************************************)
(* FeedbackService.  Adjustments are in ten-thousandths.                   *)
(***************************************************************************)
CONFIRM_BOOST == 500
REJECT_PENALTY == -1000
ADJUST_FACTOR == 300

risk_levels == [LOW |-> 0, WEAK |-> 1, MODERATE |-> 2, HIGH |-> 3]
\* risk_levels.get(level, 0)
LevelIndex(level) == IF level \in DOMAIN risk_levels THEN risk_levels[level] ELSE 0

\* `if relevance_score:` -- neither None nor 0
TruthyNum(x) == x # NoneNum /\ x # 0

\* a deliberately wrong variant, for comparison: the relevance does not scale the adjustment
calculate_adjustment_unscaled(feedback_type, relevance_score, adjusted_risk_level, assessment_id, db) ==
    LET assessment == FirstById(db, assessment_id)
    IN  IF feedback_type = "confirm" THEN CONFIRM_BOOST
        ELSE IF feedback_type = "reject" THEN REJECT_PENALTY
        ELSE IF feedback_type = "adjust" /\ adjusted_risk_level # None /\ assessment # NoRow
        THEN (LevelIndex(adjusted_risk_level) - LevelIndex(assessment.risk_level)) * ADJUST_FACTOR
        ELSE 0

\* base *= (relevance_score / 5.0); round(base, 4)
calculate_adjustment(feedback_type, relevance_score, adjusted_risk_level, assessment_id, db) ==
    LET assessment == FirstById(db, assessment_id)
    IN  IF feedback_type = "confirm"
        THEN IF TruthyNum(relevance_score)
             THEN RoundHalfEven(CONFIRM_BOOST * relevance_score, 5)
             ELSE CONFIRM_BOOST
        ELSE IF feedback_type = "reject"
        THEN IF TruthyNum(relevance_score)
             THEN RoundHalfEven(REJECT_PENALTY * (5 - relevance_score), 5)
             ELSE REJECT_PENALTY
        ELSE IF feedback_type = "adjust" /\ adjusted_risk_level # None /\ assessment # NoRow
        THEN (LevelIndex(adjusted_risk_level) - LevelIndex(assessment.risk_level)) * ADJUST_FACTOR
        ELSE 0

\* a deliberately wrong variant, for comparison: one feedback row per user, the new one replacing the old
UpsertFeedback(table, row) ==
    LET others == {r \in BagToSet(table) : r.user_id # row.user_id}
    IN  [r \in others |-> table[r]] (+) SetToBag({row})

\* db.add(feedback) ... db.commit(): one more row
InsertFeedback(table, row) == table (+) SetToBag({row})

RECURSIVE MarkFeedbackReceived(_, _, _)
\* assessment.feedback_received = feedback_type, on the row with that id
MarkFeedbackReceived(table, assessment_id, feedback_type) ==
    IF table = <<>> THEN <<>>
    ELSE <<IF Head(table).id = assessment_id
           THEN [Head(table) EXCEPT !.feedback_received = feedback_type]
           ELSE Head(table)>>
         \o MarkFeedbackReceived(Tail(table), assessment_id, feedback_type)

\* process_feedback on the tables: the tables after the commit and the row returned
process_feedback(db_feedback, db_assessments, created_at, user_id, assessment_id, feedback_type, relevance_score, adjusted_risk_level) ==
    LET adjustment == calculate_adjustment(feedback_type, relevance_score,
                                           adjusted_risk_level, assessment_id, db_assessments)
        row == FeedbackRow(user_id, assessment_id, created_at, feedback_type,
                           relevance_score, adjusted_risk_level, adjustment)
    IN  [feedback |-> InsertFeedback(db_feedback, row),
         risk_assessments |-> MarkFeedbackReceived(db_assessments, assessment_id, feedback_type),
         row |-> row]

\* db.query(Feedback).filter(Feedback.user_id == user_id).all(), as a bag
FeedbackOf(table, user_id) ==
    LET mine == {r \in BagToSet(table) : r.user_id = user_id}
    IN  [r \in mine |-> table[r]]

RECURSIVE BagTotal(_, _, _)
\* sum(f[col] for f in rows), every row counted as often as it is stored
BagTotal(table, rows, col) ==
    IF rows = {} THEN 0
    ELSE LET r == CHOOSE x \in rows : TRUE
         IN  table[r] * r[col] + BagTotal(table, rows \ {r}, col)

RECURSIVE BagCount(_, _)
BagCount(table, rows) ==
    IF rows = {} THEN 0
    ELSE LET r == CHOOSE x \in rows : TRUE
         IN  table[r] + BagCount(table, rows \ {r})

\* a deliberately wrong variant, for comparison: the sum is clipped to [-1, 1] before it is reported
get_user_feedback_stats_clipped(table, user_id) ==
    LET feedbacks == FeedbackOf(table, user_id)
        rows == BagToSet(feedbacks)
        adjustments == {f \in rows : f.confidence_adjustment # 0}
    IN  [total |-> BagCount(feedbacks, rows), confirm_rate |-> 0, avg_relevance |-> 0,
         net_adjustment |-> MaxOf(-10000, MinOf(10000,
                                BagTotal(feedbacks, adjustments, "confidence_adjustment")))]

get_user_feedback_stats(table, user_id) ==
    LET feedbacks == FeedbackOf(table, user_id)
        rows == BagToSet(feedbacks)
        total == BagCount(feedbacks, rows)
        confirms == BagCount(feedbacks, {f \in rows : f.feedback_type = "confirm"})
        relevance_scores == {f \in rows : TruthyNum(f.relevance_score)}
        adjustments == {f \in rows : f.confidence_adjustment # 0}
    IN  IF rows = {}
        THEN [total |-> 0, confirm_rate |-> 0, avg_relevance |-> 0, net_adjustment |-> 0]
        ELSE [total |-> total,
              confirm_rate |-> RoundHalfEven(confirms * 1000, total),
              avg_relevance |->
                  IF relevance_scores # {}
                  THEN RoundHalfEven(100 * BagTotal(feedbacks, relevance_scores, "relevance_score"),
                                     BagCount(feedbacks, relevance_scores))
                  ELSE 0,
              \* round(sum(adjustments), 4): the sum is a whole number of ten-thousandths
              net_adjustment |->
                  IF adjustments # {}
                  THEN BagTotal(feedbacks, adjustments, "confidence_adjustment")
                  ELSE 0]


(***************************************************************************)
(* The request handlers, as functions of the stored tables: each gives the *)
(* tables after its commit, the HTTP status and the body it answers.  A    *)
(* handler that raises HTTPException leaves the tables as they were.       *)
(***************************************************************************)
Db == [users |-> users, health_inputs |-> health_inputs,
       risk_assessments |-> risk_assessments, feedback |-> feedback, ids |-> ids]

EmptyDb == [users |-> <<>>, health_inputs |-> <<>>, risk_assessments |-> <<>>,
            feedback |-> EmptyBag,
            ids |-> [users |-> 0, health_inputs |-> 0, risk_assessments |-> 0, feedback |-> 0]]

Answer(db, status, body) == [db |-> db, status |-> status, body |-> body]

\* str(uuid.uuid4()) for the n-th user
UserKey(n) == IF n = 1 THEN "u1" ELSE "u2"

\* routers/user.py create_user
create_user(db, consent) ==
    IF ~consent.consent_data_storage
    THEN Answer(db, 400, "Data storage consent is required to use Hea")
    ELSE LET user == UserRow(UserKey(db.ids.users + 1), consent)
         IN  Answer([db EXCEPT !.users = Append(@, user), !.ids.users = @ + 1], 201, user)

\* routers/health_input.py submit_health_input (the texts of the model are within
\* validate_input_length's 5000 characters)
submit_health_input(db, utcnow, user_id, input_data) ==
    LET user == FirstById(db.users, user_id)
        sanitized == sanitize_health_input(input_data.symptom_text, input_data.emoji_inputs,
                                           input_data.checkbox_selections)
        health_input == HealthInputRow(db.ids.health_inputs + 1, user_id, utcnow,
                                       sanitized, input_data.daily_metrics)
    IN  IF user = NoRow THEN Answer(db, 404, "User not found")
        ELSE IF ~user.consent_data_storage
        THEN Answer(db, 403, "Data storage consent required")
        ELSE Answer([db EXCEPT !.health_inputs = Append(@, health_input),
                               !.ids.health_inputs = @ + 1], 201, health_input)

RECURSIVE Reverse(_)
Reverse(xs) == IF xs = <<>> THEN <<>> ELSE Append(Reverse(Tail(xs)), Head(xs))

\* query(HealthInput).filter(user_id).order_by(created_at.desc()).limit(n).all()
RecentInputs(table, user_id, limit) ==
    Take(Reverse(SelectSeq2(table, "user_id", user_id)), limit)

MetricsOfInput(inp) ==
    [sleep_hours |-> inp.sleep_hours, mood_score |-> inp.mood_score,
     energy_level |-> inp.energy_level, stress_level |-> inp.stress_level,
     steps_count |-> inp.steps_count]

\* for inp in recent_inputs: inp.is_processed = "processed"
MarkProcessed(table, input_ids) ==
    [i \in 1..Len(table) |->
        IF InSeq(table[i].id, input_ids)
        THEN [table[i] EXCEPT !.is_processed = "processed"] ELSE table[i]]

\* routers/inference.py run_assessment
run_assessment(db, utcnow, self_loaded, user_id, include_history_days, elapsed) ==
    LET user == FirstById(db.users, user_id)
        recent_inputs == RecentInputs(db.health_inputs, user_id, include_history_days)
        latest == recent_inputs[1]
        oldest_first == Reverse(recent_inputs)
        historical_metrics == [i \in 1..Len(oldest_first) |-> MetricsOfInput(oldest_first[i])]
        result == assess_risk(self_loaded, latest.symptom_text, latest.emoji_inputs,
                              latest.checkbox_selections, MetricsOfInput(latest),
                              historical_metrics, elapsed)
        input_ids == [i \in 1..Len(recent_inputs) |-> recent_inputs[i].id]
        assessment == RiskAssessmentRow(db.ids.risk_assessments + 1, user_id, utcnow,
                                        result, input_ids)
    IN  IF user = NoRow THEN Answer(db, 404, "User not found")
        ELSE IF ~user.consent_ml_usage
        THEN Answer(db, 403, "ML usage consent required for risk assessment")
        ELSE IF recent_inputs = <<>>
        THEN Answer(db, 400, "No health inputs found. Submit daily logs first.")
        ELSE Answer([db EXCEPT !.risk_assessments = Append(@, assessment),
                               !.health_inputs = MarkProcessed(@, input_ids),
                               !.ids.risk_assessments = @ + 1], 201, assessment)

\* routers/feedback.py submit_feedback
submit_feedback(db, utcnow, user_id, feedback_data) ==
    LET user == FirstById(db.users, user_id)
        assessment == FirstById(SelectSeq2(db.risk_assessments, "user_id", user_id),
                                feedback_data.assessment_id)
        done == process_feedback(db.feedback, db.risk_assessments, utcnow, user_id,
                                 feedback_data.assessment_id, feedback_data.feedback_type,
                                 feedback_data.relevance_score,
                                 feedback_data.adjusted_risk_level)
    IN  IF user = NoRow THEN Answer(db, 404, "User not found")
        ELSE IF assessment = NoRow THEN Answer(db, 404, "Assessment not found for this user")
        ELSE Answer([db EXCEPT !.feedback = done.feedback,
                               !.risk_assessments = done.risk_assessments,
                               !.ids.feedback = @ + 1], 201, done.row)

\* settings.DATA_RETENTION_DAYS
DATA_RETENTION_DAYS == 365

RECURSIVE SetUserConsent(_, _, _)
SetUserConsent(table, user_id, consent_data) ==
    IF table = <<>> THEN <<>>
    ELSE <<IF Head(table).id = user_id
           THEN [Head(table) EXCEPT
                    !.consent_data_storage = consent_data.consent_data_storage,
                    !.consent_ml_usage = consent_data.consent_ml_usage]
           ELSE Head(table)>>
         \o SetUserConsent(Tail(table), user_id, consent_data)

\* routers/privacy.py update_privacy_settings -> PrivacyService.update_consent
update_consent(db, user_id, consent_data) ==
    IF FirstById(db.users, user_id) = NoRow
    THEN Answer(db, 404, "User not found")
    ELSE Answer([db EXCEPT !.users = SetUserConsent(@, user_id, consent_data)],
                200, "Privacy settings updated successfully")

RECURSIVE RejectSeq(_, _, _)
\* the rows of `table` whose column `col` is not `v`
RejectSeq(table, col, v) ==
    IF table = <<>> THEN <<>>
    ELSE (IF Head(table)[col] # v THEN <<Head(table)>> ELSE <<>>)
         \o RejectSeq(Tail(table), col, v)

\* routers/privacy.py delete_user_data -> PrivacyService.delete_user_data
delete_user_data(db, user_id, confirm) ==
    LET kept == {r \in BagToSet(db.feedback) : r.user_id # user_id}
    IN  IF ~confirm
        THEN Answer(db, 400, "Set confirm=true to permanently delete all data")
        ELSE IF FirstById(db.users, user_id) = NoRow
        THEN Answer(db, 404, "User not found")
        ELSE Answer([db EXCEPT
                        !.feedback = [r \in kept |-> db.feedback[r]],
                        !.risk_assessments = RejectSeq(@, "user_id", user_id),
                        !.health_inputs = RejectSeq(@, "user_id", user_id),
                        !.users = RejectSeq(@, "id", user_id)],
                    200,
                    [deleted_inputs |-> Len(SelectSeq2(db.health_inputs, "user_id", user_id)),
                     deleted_assessments |->
                         Len(SelectSeq2(db.risk_assessments, "user_id", user_id)),
                     deleted_feedbacks |->
                         BagCardinality(db.feedback) - BagCardinality([r \in kept |-> db.feedback[r]]),
                     user_deleted |-> TRUE])

RECURSIVE NotOlderThan(_, _)
\* what query(T).filter(T.created_at < cutoff).delete() leaves of a table
NotOlderThan(table, cutoff) ==
    IF table = <<>> THEN <<>>
    ELSE (IF Head(table).created_at < cutoff THEN <<>> ELSE <<Head(table)>>)
         \o NotOlderThan(Tail(table), cutoff)

\* PrivacyService.enforce_retention_policy
enforce_retention_policy(db, utcnow) ==
    LET cutoff == utcnow - DATA_RETENTION_DAYS
        kept == {r \in BagToSet(db.feedback) : ~(r.created_at < cutoff)}
        old_inputs == Len(db.health_inputs) - Len(NotOlderThan(db.health_inputs, cutoff))
        old_assessments ==
            Len(db.risk_assessments) - Len(NotOlderThan(db.risk_assessments, cutoff))
        old_feedback == BagCardinality(db.feedback) - BagCardinality([r \in kept |-> db.feedback[r]])
    IN  Answer([db EXCEPT !.health_inputs = NotOlderThan(@, cutoff),
                          !.risk_assessments = NotOlderThan(@, cutoff),
                          !.feedback = [r \in kept |-> db.feedback[r]]],
               200,
               [purged_inputs |-> old_inputs, purged_assessments |-> old_assessments,
                purged_feedbacks |-> old_feedback, cutoff_date |-> cutoff])

(***************************************************************************)
(* The requests the specifications below send.                             *)
(***************************************************************************)
UserIds == {"u1", "u2"}
ConsentAll == [consent_data_storage |-> TRUE, consent_ml_usage |-> TRUE]

\* request bodies of submit_health_input, one for each level the fusion can give
HealthInputRequests ==
    {[symptom_text |-> NoText, emoji_inputs |-> <<>>, checkbox_selections |-> <<>>,
      daily_metrics |-> NoMetrics],
     [symptom_text |-> {"Chest Pain"}, emoji_inputs |-> <<>>, checkbox_selections |-> <<>>,
      daily_metrics |-> NoMetrics],
     [symptom_text |-> {"Chest Pain", "<b>"}, emoji_inputs |-> <<":weary_face:">>,
      checkbox_selections |-> <<"Chest_Pain ">>, daily_metrics |-> Metrics(55, 7, 7, 3)],
     [symptom_text |-> {"Chest Pain", "every day"}, emoji_inputs |-> <<>>,
      checkbox_selections |-> <<>>, daily_metrics |-> Metrics(39, 2, 3, 8)]}

\* the tables after two users signed up, the first submitted `input_data` and had it assessed
SeededDb(input_data) ==
    LET signed_up == create_user(create_user(EmptyDb, ConsentAll).db, ConsentAll).db
        submitted == submit_health_input(signed_up, 0, "u1", input_data).db
    IN  run_assessment(submitted, 0, FALSE, "u1", 7, 1).db

\* the same, and then the second user submitted `other_data` and had it assessed
SeededDbBoth(input_data, other_data) ==
    LET submitted == submit_health_input(SeededDb(input_data), 0, "u2", other_data).db
    IN  run_assessment(submitted, 0, TRUE, "u2", 7, 1).db

ChestPainOnly ==
    [symptom_text |-> {"Chest Pain"}, emoji_inputs |-> <<>>, checkbox_selections |-> <<>>,
     daily_metrics |-> NoMetrics]
ChestPainEveryDay ==
    [symptom_text |-> {"Chest Pain", "every day"}, emoji_inputs |-> <<>>,
     checkbox_selections |-> <<>>, daily_metrics |-> Metrics(39, 2, 3, 8)]

SetDb(db) ==
    /\ users' = db.users
    /\ health_inputs' = db.health_inputs
    /\ risk_assessments' = db.risk_assessments
    /\ feedback' = db.feedback
    /\ ids' = db.ids

InDb(db) ==
    /\ users = db.users
    /\ health_inputs = db.health_inputs
    /\ risk_assessments = db.risk_assessments
    /\ feedback = db.feedback
    /\ ids = db.ids

(***************************************************************************)
(* SpecCalc: _calculate_adjustment called once, on every feedback a        *)
(* request can carry, against a stored assessment of each level or against *)
(* an assessment id that is not stored.                                    *)
(***************************************************************************)
CalcCalls ==
    [fn : {"_calculate_adjustment"},
     feedback_type : {"confirm", "reject", "adjust"},
     relevance_score : {NoneNum} \cup (1..5),
     adjusted_risk_level : {None, "LOW", "WEAK", "MODERATE", "HIGH"},
     assessment_id : {1, 2}]

InitCalc ==
    /\ call \in CalcCalls
    /\ ret = Pending
    /\ log = <<>>
    /\ loaded = TRUE
    /\ \E input_data \in HealthInputRequests : InDb(SeededDb(input_data))
    /\ now = 0
    /\ ticks = 0
    /\ resp = NoResp
    /\ sumAdj = <<>>
    /\ procs = <<>>
    /\ InsightsIdle
    /\ MiddlewareIdle

CalculateAdjustment ==
    /\ call.fn = "_calculate_adjustment"
    /\ ret = Pending
    /\ ret' = Returned(calculate_adjustment(call.feedback_type, call.relevance_score,
                                            call.adjusted_risk_level, call.assessment_id,
                                            risk_assessments))
    /\ UNCHANGED <<call, log, systemVars>>

NextCalc == CalculateAdjustment
SpecCalc == InitCalc /\ [][NextCalc]_vars

\* C9: _calculate_adjustment returns 0.05*(relevance/5) for confirm with a relevance
\* and 0.05 without; -0.10*(1 - relevance/5) for reject with a relevance and -0.10
\* without; 0.03*(target index - original index) for adjust with a target level
\* (LOW=0, WEAK=1, MODERATE=2, HIGH=3) on a stored assessment; 0.0 otherwise.
C9_AdjustmentFormulas ==
    ret.status = "returned" =>
        LET r == call.relevance_score
            target == call.adjusted_risk_level
            assessment == FirstById(risk_assessments, call.assessment_id)
            index == [LOW |-> 0, WEAK |-> 1, MODERATE |-> 2, HIGH |-> 3]
        IN  CASE call.feedback_type = "confirm" /\ r # NoneNum -> 5 * ret.value = 500 * r
              [] call.feedback_type = "confirm" /\ r = NoneNum -> ret.value = 500
              [] call.feedback_type = "reject" /\ r # NoneNum -> 5 * ret.value = -1000 * (5 - r)
              [] call.feedback_type = "reject" /\ r = NoneNum -> ret.value = -1000
              [] call.feedback_type = "adjust" /\ target # None /\ assessment # NoRow ->
                    ret.value = 300 * (index[target] - index[assessment.risk_level])
              [] OTHER -> ret.value = 0

\* C9 witness: an adjust from a stored HIGH assessment down to LOW returned -0.09
C9_Witness ==
    /\ ret.status = "returned"
    /\ call.feedback_type = "adjust" /\ call.adjusted_risk_level = "LOW"
    /\ FirstById(risk_assessments, call.assessment_id) # NoRow
    /\ FirstById(risk_assessments, call.assessment_id).risk_level = "HIGH"
    /\ ret.value = -900

(***************************************************************************)
(* The handlers as actions.  What a writing handler did is in the tables;  *)
(* resp keeps the answer of a read of the statistics until the next        *)
(* request.                                                                *)
(***************************************************************************)
Resp(op, user_id, out) == [op |-> op, user_id |-> user_id, status |-> out.status, body |-> out.body]

FeedbackData(assessment_id, feedback_type, relevance_score, adjusted_risk_level) ==
    [assessment_id |-> assessment_id, feedback_type |-> feedback_type,
     relevance_score |-> relevance_score, adjusted_risk_level |-> adjusted_risk_level]

\* the feedback bodies sent, per user, by the specifications about feedback
FeedbackBodies ==
    [user_id \in UserIds |->
        IF user_id = "u1"
        THEN {FeedbackData(1, "confirm", 5, None), FeedbackData(1, "reject", NoneNum, None),
              FeedbackData(1, "reject", 5, None), FeedbackData(1, "adjust", NoneNum, "HIGH")}
        ELSE {FeedbackData(2, "confirm", 5, None), FeedbackData(1, "confirm", 5, None)}]

\* POST /feedback/, with a body among sent[user_id]
SubmitFeedback(sent) ==
    /\ \E user_id \in UserIds : \E feedback_data \in sent[user_id] :
          LET out == submit_feedback(Db, now, user_id, feedback_data) IN
          /\ SetDb(out.db)
          /\ resp' = NoResp
          /\ sumAdj' = IF out.status = 201
                       THEN [sumAdj EXCEPT ![user_id] = @ + out.body.confidence_adjustment]
                       ELSE sumAdj
    /\ UNCHANGED <<call, ret, log, loaded, clockVars, procs, insightVars, middlewareVars>>

\* GET /feedback/stats
GetFeedbackStats ==
    /\ \E user_id \in UserIds :
          resp' = Resp("get_feedback_stats", user_id,
                       Answer(Db, 200, get_user_feedback_stats(feedback, user_id)))
    /\ UNCHANGED <<call, ret, log, loaded, dbVars, clockVars, histVars, procs, insightVars, middlewareVars>>

(***************************************************************************)
(* SpecFeedback: feedback on stored assessments and reads of the           *)
(* statistics, from the tables after both users were assessed.             *)
(***************************************************************************)
\* the specification stops sending feedback at MaxFeedback stored rows
MaxFeedback == 11

InitFeedback ==
    /\ HarnessIdle
    /\ loaded = TRUE
    /\ InDb(SeededDbBoth(ChestPainOnly, ChestPainEveryDay))
    /\ now = 0
    /\ ticks = 0
    /\ resp = NoResp
    /\ sumAdj = [u \in UserIds |-> 0]
    /\ procs = <<>>
    /\ InsightsIdle
    /\ MiddlewareIdle

NextFeedback ==
    \/ BagCardinality(feedback) < MaxFeedback /\ SubmitFeedback(FeedbackBodies)
    \/ GetFeedbackStats
SpecFeedback == InitFeedback /\ [][NextFeedback]_vars

\* C7: after any sequence of process_feedback calls, the net_adjustment that
\* get_user_feedback_stats reports for a user is the sum of the adjustments computed
\* for that user's feedback events, not clipped (it may leave [-1, 1]).
C7_NetAdjustmentIsUnclippedSum ==
    /\ \A user_id \in UserIds :
          get_user_feedback_stats(feedback, user_id).net_adjustment = sumAdj[user_id]
    /\ resp # NoResp => resp.body.net_adjustment = sumAdj[resp.user_id]

\* C7 witness: three confirms of relevance 5 and nothing else: 0.15 is reported
C7_Witness ==
    /\ resp.op = "get_feedback_stats" /\ resp.user_id = "u1"
    /\ resp.body.total = 3 /\ resp.body.confirm_rate = 1000
    /\ resp.body.net_adjustment = 1500

\* C7: the reported sum has left [-1, 1]
C7_WitnessBelowMinusOne ==
    /\ resp.op = "get_feedback_stats"
    /\ resp.body.net_adjustment < -10000

\* the stored feedback rows of the same event as `row`: same user, assessment,
\* feedback type, relevance and target level
SameEvent(table, row) ==
    {r \in BagToSet(table) :
        /\ r.user_id = row.user_id /\ r.assessment_id = row.assessment_id
        /\ r.feedback_type = row.feedback_type
        /\ r.relevance_score = row.relevance_score
        /\ r.adjusted_risk_level = row.adjusted_risk_level}

\* the step stores `row`, whose event was processed before
ProcessedAgain(row) ==
    /\ SameEvent(feedback, row) # {}
    /\ feedback' = feedback (+) SetToBag({row})

\* C11: processing the same feedback event (same user, assessment, feedback type,
\* relevance and target level) a second time leaves the user's net_adjustment at
\* its value after the first processing.
C11_SecondProcessingKeepsNet ==
    [][\A row \in BagToSet(feedback') :
          ProcessedAgain(row) =>
             get_user_feedback_stats(feedback', row.user_id).net_adjustment
                = get_user_feedback_stats(feedback, row.user_id).net_adjustment]_vars

(***************************************************************************)
(* Concurrent POST /feedback/ requests.  Every request has its own         *)
(* Session; it sees what is committed when it queries, and its INSERT and  *)
(* UPDATE become visible together at its db.commit().  procs[p] is the     *)
(* request's position (pc) and its locals; `began` and `ended` are history *)
(* (the number of stored feedback rows when it started and when it         *)
(* committed).                                                             *)
(***************************************************************************)
MaxProcs == 3
ProcIds == 1..MaxProcs

FeedbackRequests ==
    UNION {{[user_id |-> u, feedback_data |-> d] : d \in FeedbackBodies[u]} : u \in UserIds}

NewProc(request) ==
    [pc |-> "verify", user_id |-> request.user_id, feedback_data |-> request.feedback_data,
     adjustment |-> 0, status |-> 0, began |-> 0, ended |-> 0]

\* submit_feedback, lines 22-33: the user and the assessment are looked up
ProcVerify(p) ==
    /\ procs[p].pc = "verify"
    /\ LET me == procs[p]
           user == FirstById(users, me.user_id)
           assessment == FirstById(SelectSeq2(risk_assessments, "user_id", me.user_id),
                                   me.feedback_data.assessment_id)
       IN  procs' = [procs EXCEPT ![p] =
                IF user = NoRow \/ assessment = NoRow
                THEN [me EXCEPT !.pc = "done", !.status = 404]
                ELSE [me EXCEPT !.pc = "calculate", !.began = BagCardinality(feedback)]]
    /\ UNCHANGED <<call, ret, log, loaded, dbVars, clockVars, resp, histVars, insightVars, middlewareVars>>

\* process_feedback, lines 31-42: the Feedback object and its adjustment
ProcCalculate(p) ==
    /\ procs[p].pc = "calculate"
    /\ LET me == procs[p]
           d == me.feedback_data
       IN  procs' = [procs EXCEPT ![p] =
                [me EXCEPT !.pc = "commit",
                           !.adjustment = calculate_adjustment(d.feedback_type, d.relevance_score,
                                              d.adjusted_risk_level, d.assessment_id,
                                              risk_assessments)]]
    /\ UNCHANGED <<call, ret, log, loaded, dbVars, clockVars, resp, histVars, insightVars, middlewareVars>>

\* process_feedback, lines 44-59: db.add, the assessment's feedback status, db.commit
ProcCommit(p) ==
    /\ procs[p].pc = "commit"
    /\ LET me == procs[p]
           d == me.feedback_data
           row == FeedbackRow(me.user_id, d.assessment_id, now, d.feedback_type,
                              d.relevance_score, d.adjusted_risk_level, me.adjustment)
       IN  /\ feedback' = InsertFeedback(feedback, row)
           /\ risk_assessments' = MarkFeedbackReceived(risk_assessments, d.assessment_id,
                                                       d.feedback_type)
           /\ procs' = [procs EXCEPT ![p] = [me EXCEPT !.pc = "done", !.status = 201,
                                                       !.ended = BagCardinality(feedback)]]
           /\ ids' = [ids EXCEPT !.feedback = @ + 1]
           /\ resp' = NoResp
           /\ sumAdj' = [sumAdj EXCEPT ![me.user_id] = @ + me.adjustment]
    /\ UNCHANGED <<call, ret, log, loaded, users, health_inputs, clockVars, insightVars, middlewareVars>>

InitConc ==
    /\ HarnessIdle
    /\ loaded = TRUE
    /\ InDb(SeededDbBoth(ChestPainOnly, ChestPainEveryDay))
    /\ now = 0
    /\ ticks = 0
    /\ resp = NoResp
    /\ sumAdj = [u \in UserIds |-> 0]
    /\ procs \in [ProcIds -> {NewProc(r) : r \in FeedbackRequests}]
    /\ InsightsIdle
    /\ MiddlewareIdle

NextConc == \E p \in ProcIds : ProcVerify(p) \/ ProcCalculate(p) \/ ProcCommit(p)
SpecConc == InitConc /\ [][NextConc]_vars

RECURSIVE CommittedSum(_, _)
\* the adjustments of the requests among `ps` that committed for `user_id`, added up
CommittedSum(ps, user_id) ==
    IF ps = {} THEN 0
    ELSE LET p == CHOOSE x \in ps : TRUE
         IN  (IF procs[p].user_id = user_id /\ procs[p].status = 201
              THEN procs[p].adjustment ELSE 0) + CommittedSum(ps \ {p}, user_id)

\* C8: when concurrent process_feedback calls have all committed, in whatever order
\* their steps ran, each user's net_adjustment is the sum of the adjustments of all
\* of that user's calls: no feedback is lost.
C8_NoLostFeedback ==
    (\A p \in ProcIds : procs[p].pc = "done") =>
        \A user_id \in UserIds :
            get_user_feedback_stats(feedback, user_id).net_adjustment
                = CommittedSum(ProcIds, user_id)

\* C8 witness: all requests are done, two of the same user overlapped (the second
\* started before the first committed and committed after it), and both count
C8_Witness ==
    /\ \A p \in ProcIds : procs[p].pc = "done"
    /\ \E p, q \in ProcIds :
          /\ p # q /\ procs[p].user_id = "u1" /\ procs[q].user_id = "u1"
          /\ procs[p].status = 201 /\ procs[q].status = 201
          /\ procs[p].adjustment # 0 /\ procs[q].adjustment # 0
          /\ procs[q].began = procs[p].ended /\ procs[q].ended > procs[p].ended
    /\ get_user_feedback_stats(feedback, "u1").net_adjustment = CommittedSum(ProcIds, "u1")
    /\ CommittedSum(ProcIds, "u1") # 0

(***************************************************************************)
(* Spec: the whole service.  Users sign up, submit health inputs, have     *)
(* them assessed, send feedback, change their consent and delete their     *)
(* data; the retention job runs; the clock advances by a day or by the     *)
(* retention period.                                                       *)
(***************************************************************************)
\* the specification stops creating rows when MaxKeys row keys have been issued,
\* and stops the clock after MaxTicks moves
MaxKeys == 5
MaxTicks == 1
KeysIssued == ids.users + ids.health_inputs + ids.risk_assessments + ids.feedback

ConsentStorageOnly == [consent_data_storage |-> TRUE, consent_ml_usage |-> FALSE]
ConsentNone == [consent_data_storage |-> FALSE, consent_ml_usage |-> FALSE]
SignupConsents == {ConsentAll, ConsentNone}
ConsentRequests == {ConsentAll, ConsentStorageOnly}
SentInputs == {ChestPainOnly}
HistoryDays == {1, 7}
\* every user confirms, with relevance 5, the first or the second assessment stored
SentFeedback ==
    [user_id \in UserIds |->
        {FeedbackData(1, "confirm", 5, None), FeedbackData(2, "confirm", 5, None)}]

\* POST /users/
CreateUser ==
    /\ \E consent \in SignupConsents :
          LET out == create_user(Db, consent) IN
          /\ SetDb(out.db)
          /\ resp' = NoResp
    /\ UNCHANGED <<call, ret, log, loaded, clockVars, histVars, procs, insightVars, middlewareVars>>

\* POST /inputs/
SubmitHealthInput ==
    /\ \E user_id \in UserIds, input_data \in SentInputs :
          LET out == submit_health_input(Db, now, user_id, input_data) IN
          /\ SetDb(out.db)
          /\ resp' = NoResp
    /\ UNCHANGED <<call, ret, log, loaded, clockVars, histVars, procs, insightVars, middlewareVars>>

\* POST /assess/
RunAssessment ==
    /\ \E user_id \in UserIds, include_history_days \in HistoryDays, elapsed \in ElapsedValues :
          LET out == run_assessment(Db, now, loaded, user_id, include_history_days, elapsed) IN
          /\ SetDb(out.db)
          /\ resp' = NoResp
          /\ loaded' = (loaded \/ out.status = 201)
    /\ UNCHANGED <<call, ret, log, clockVars, histVars, procs, insightVars, middlewareVars>>

\* PUT /privacy/{user_id}
UpdateConsent ==
    /\ \E user_id \in UserIds, consent_data \in ConsentRequests :
          LET out == update_consent(Db, user_id, consent_data) IN
          /\ SetDb(out.db)
          /\ resp' = NoResp
    /\ UNCHANGED <<call, ret, log, loaded, clockVars, histVars, procs, insightVars, middlewareVars>>

\* DELETE /privacy/{user_id}
DeleteUserData ==
    /\ \E user_id \in UserIds, confirm \in BOOLEAN :
          LET out == delete_user_data(Db, user_id, confirm) IN
          /\ SetDb(out.db)
          /\ resp' = NoResp
    /\ UNCHANGED <<call, ret, log, loaded, clockVars, histVars, procs, insightVars, middlewareVars>>

\* the retention batch job
EnforceRetention ==
    /\ LET out == enforce_retention_policy(Db, now) IN
          /\ SetDb(out.db)
          /\ resp' = NoResp
    /\ UNCHANGED <<call, ret, log, loaded, clockVars, histVars, procs, insightVars, middlewareVars>>

\* time passes: the clock moves on by more than the retention period
Tick ==
    /\ now' = now + DATA_RETENTION_DAYS + 1
    /\ ticks' = ticks + 1
    /\ UNCHANGED <<call, ret, log, loaded, dbVars, resp, histVars, procs, insightVars, middlewareVars>>

Init ==
    /\ HarnessIdle
    /\ loaded = FALSE
    /\ InDb(EmptyDb)
    /\ now = 0
    /\ ticks = 0
    /\ resp = NoResp
    /\ sumAdj = [u \in UserIds |-> 0]
    /\ procs = <<>>
    /\ InsightsIdle
    /\ MiddlewareIdle

Next ==
    \/ KeysIssued < MaxKeys /\ ids.users < Cardinality(UserIds) /\ CreateUser
    \/ KeysIssued < MaxKeys /\ SubmitHealthInput
    \/ KeysIssued < MaxKeys /\ RunAssessment
    \/ KeysIssued < MaxKeys /\ SubmitFeedback(SentFeedback)
    \/ GetFeedbackStats
    \/ UpdateConsent
    \/ DeleteUserData
    \/ EnforceRetention
    \/ ticks < MaxTicks /\ Tick

Spec == Init /\ [][Next]_vars

NetAdjustment(table, user_id) == get_user_feedback_stats(table, user_id).net_adjustment

\* a step in which run_assessment stored an assessment
AssessmentStored == ids'.risk_assessments = ids.risk_assessments + 1

\* C1 (as claimed): when a user's feedback has accumulated a net_adjustment a # 0, the
\* next run_assessment for that user computes the score
\* clip(0.55*text_score + 0.45*temporal_score + a, 0, 1) (to the 3 places it is
\* rounded to) and takes the risk level from that adjusted score.
C1_FeedbackReadBack ==
    [][AssessmentStored =>
        LET assessment == risk_assessments'[Len(risk_assessments')]
            a == NetAdjustment(feedback, assessment.user_id)
            d == assessment.signal_details
            adjusted == ClipUnit(55 * d.nlp_score + 45 * d.timeseries_score + 10 * a)
        IN  a # 0 => /\ Abs(100 * d.combined_score - adjusted) <= 100
                     /\ assessment.risk_level = BucketOf(adjusted, 100000)]_vars

NetChanged(user_id) == NetAdjustment(feedback', user_id) # NetAdjustment(feedback, user_id)

\* a step in which process_feedback ran for user_id and computed a non-zero adjustment
FeedbackStoredFor(user_id) ==
    /\ ids'.feedback = ids.feedback + 1
    /\ sumAdj'[user_id] # sumAdj[user_id]

\* a step in which rows of the feedback table were deleted
FeedbackDeleted ==
    /\ ids'.feedback = ids.feedback
    /\ BagCardinality(feedback') < BagCardinality(feedback)

\* C10 (as claimed): a user's net_adjustment changes only in a process_feedback step
\* for that user; run_assessment, submit_health_input, update_consent and
\* enforce_retention_policy leave every user's net_adjustment unchanged.
C10_OnlyProcessFeedback ==
    [][\A user_id \in UserIds : NetChanged(user_id) => FeedbackStoredFor(user_id)]_vars

\* C10 (amended): a user's net_adjustment changes only in a process_feedback step for
\* that user or in a step that deletes stored feedback rows of that user
\* (enforce_retention_policy, delete_user_data); a step that stores an assessment or a
\* health input, or changes a consent, leaves every user's net_adjustment unchanged.
C10_OnlyFeedbackOrDeletion ==
    [][\A user_id \in UserIds :
          /\ NetChanged(user_id) =>
                \/ FeedbackStoredFor(user_id)
                \/ FeedbackDeleted /\ BagCardinality(FeedbackOf(feedback', user_id))
                                        < BagCardinality(FeedbackOf(feedback, user_id))
          /\ (\/ AssessmentStored
              \/ ids'.health_inputs # ids.health_inputs
              \/ Len(users') = Len(users) /\ users' # users)
                => ~NetChanged(user_id)]_vars

\* C10 witness: a user who is still signed up had feedback with a non-zero adjustment
\* processed, and the retention job has since purged it: the net_adjustment is back at 0
C10_Witness ==
    /\ FirstById(users, "u1") # NoRow
    /\ sumAdj["u1"] # 0
    /\ NetAdjustment(feedback, "u1") = 0
    /\ ids.feedback > 0 /\ feedback = EmptyBag

(***************************************************************************)
(* GeminiService and the /insights router.  A Python exception is the      *)
(* value Raised(name).  The text of a backend response is one of the       *)
(* strings of ResponseTexts, and json.loads is JsonLoads on them.  A dict  *)
(* is a record, whose DOMAIN is its set of keys.                           *)
(***************************************************************************)
Raised(e) == [raised |-> e]
IsRaised(x) == DOMAIN x = {"raised"}

GEMINI_PRO_MODEL == "gemini-2.5-pro-preview-05-06"
GEMINI_FLASH_MODEL == "gemini-2.5-flash-preview-05-20"

\* _ensure_initialized; client_ok: genai.Client(api_key=...) returns (TRUE) or raises
ensure_initialized(self, api_key, client_ok) ==
    IF self.initialized THEN self
    ELSE IF api_key = None THEN self
    ELSE IF client_ok THEN [client |-> "genai.Client", initialized |-> TRUE]
    ELSE self

\* what a response of the backend can hold in response.text
TextAsPrompted ==
    "{summary, patterns, recommendations, risk_note, wellness_score_reasoning, disclaimer}"
TextOtherKeys == "{summary, insights}"
TextList == "[]"
TextNotJson == "Sorry, I cannot help with that."
TipAsPrompted == "{greeting, quick_tip, encouragement}"
ResponseTexts == {TextAsPrompted, TextOtherKeys, TextList, TextNotJson, None}
TipTexts == {TipAsPrompted, TextNotJson, None}

\* json.loads(text)
JsonLoads(text) ==
    CASE text = None -> Raised("TypeError")
      [] text = TextAsPrompted ->
            [summary |-> "generated", patterns |-> "generated",
             recommendations |-> "generated", risk_note |-> "generated",
             wellness_score_reasoning |-> "generated", disclaimer |-> "generated"]
      [] text = TextOtherKeys -> [summary |-> "generated", insights |-> "generated"]
      [] text = TextList -> <<>>
      [] text = TipAsPrompted ->
            [greeting |-> "generated", quick_tip |-> "generated",
             encouragement |-> "generated"]
      [] OTHER -> Raised("JSONDecodeError")

\* _fallback_analysis
fallback_analysis(health_data) ==
    [source |-> "rule-based-fallback",
     analysis |-> [summary |-> "Based on your recent logs, your patterns are being tracked.",
                   patterns |-> <<"Regular logging detected", "building a personal baseline">>,
                   recommendations |-> <<"Continue logging daily", "consistent time",
                                         "text descriptions and metric sliders">>,
                   risk_note |-> "Not enough AI-analyzed data yet.",
                   wellness_score_reasoning |-> "More data needed",
                   disclaimer |-> "Hea is a wellness tool and does not provide medical advice."],
     success |-> FALSE]

\* dict.get(key, default)
Get(d, key, default) == IF key \in DOMAIN d THEN d[key] ELSE default

\* _fallback_tip; `mood >= 7` raises TypeError on a mood_score that is not a number
fallback_tip(daily_log) ==
    LET mood == Get(Get(daily_log, "daily_metrics", <<>>), "mood_score", 5)
    IN  IF mood = NoneNum THEN Raised("TypeError")
        ELSE [source |-> "rule-based-fallback",
              tip |-> [greeting |-> IF mood >= 7 THEN "Great to see you're feeling good today!"
                                    ELSE IF mood >= 4 THEN "Thanks for checking in today!"
                                    ELSE "We're glad you're here.",
                       quick_tip |-> IF mood >= 7 THEN "Keep the positive momentum"
                                     ELSE IF mood >= 4 THEN "A 10-minute walk"
                                     ELSE "Be gentle with yourself today.",
                       encouragement |-> "Every log helps Hea understand you better."],
              success |-> FALSE]

\* what self.client.models.generate_content(...) does when it ends: it returns a
\* response with the text `text`, or it raises
Responded(text) == [kind |-> "response", text |-> text]
CallFailed == [kind |-> "raises"]

\* analyze_health_patterns from line 102 on, once generate_content has ended
analyze_after_call(outcome, health_data) ==
    IF outcome.kind = "raises" THEN fallback_analysis(health_data)
    ELSE LET result == JsonLoads(outcome.text)
         IN  IF IsRaised(result) THEN fallback_analysis(health_data)
             ELSE [source |-> "gemini-pro", model |-> GEMINI_PRO_MODEL,
                   analysis |-> result, success |-> TRUE]

\* get_quick_tip from line 138 on, once generate_content has ended
tip_after_call(outcome, daily_log) ==
    IF outcome.kind = "raises" THEN fallback_tip(daily_log)
    ELSE LET result == JsonLoads(outcome.text)
         IN  IF IsRaised(result) THEN fallback_tip(daily_log)
             ELSE [source |-> "gemini-flash", model |-> GEMINI_FLASH_MODEL,
                   tip |-> result, success |-> TRUE]

\* the columns of HealthInput: the attributes an instance of it has
HealthInputColumns ==
    {"id", "user_id", "created_at", "symptom_text", "emoji_inputs", "checkbox_selections",
     "sleep_hours", "mood_score", "energy_level", "stress_level", "steps_count",
     "water_intake_ml", "wearable_data", "is_processed", "input_source"}

\* inp.<name> on an instance of HealthInput
GetAttr(inp, name) ==
    IF name \in HealthInputColumns THEN Get(inp, name, None) ELSE Raised("AttributeError")

\* the dict analyze_patterns builds for one stored input
InputEntry(inp) ==
    LET free_text_input == GetAttr(inp, "free_text_input")
        selected_symptoms == GetAttr(inp, "selected_symptoms")
        daily_metrics == GetAttr(inp, "daily_metrics")
    IN  IF "free_text_input" \notin HealthInputColumns THEN free_text_input
        ELSE IF "selected_symptoms" \notin HealthInputColumns THEN selected_symptoms
        ELSE IF "daily_metrics" \notin HealthInputColumns THEN daily_metrics
        ELSE [free_text_input |-> free_text_input, selected_symptoms |-> selected_symptoms,
              daily_metrics |-> daily_metrics, created_at |-> inp.created_at]

\* query(RiskAssessment).filter(user_id).order_by(created_at.desc()).first()
LatestAssessment(table, user_id) ==
    LET mine == Reverse(SelectSeq2(table, "user_id", user_id))
    IN  IF mine = <<>> THEN NoRow ELSE Head(mine)

\* analyze_patterns, lines 59-94: the payload, or the exception building it raises
build_health_data(db, user_id, include_days) ==
    LET inputs == RecentInputs(db.health_inputs, user_id, include_days)
        latest_assessment == LatestAssessment(db.risk_assessments, user_id)
        entries == [i \in 1..Len(inputs) |-> InputEntry(inputs[i])]
    IN  IF \E i \in 1..Len(inputs) : IsRaised(entries[i])
        THEN entries[CHOOSE i \in 1..Len(inputs) : IsRaised(entries[i])]
        ELSE IF latest_assessment = NoRow THEN [inputs |-> entries]
        ELSE [inputs |-> entries,
              assessment |-> [risk_level |-> latest_assessment.risk_level,
                              confidence_score |-> latest_assessment.confidence_score,
                              signal_details |-> latest_assessment.signal_details]]

\* _build_analysis_prompt: which parts the prompt has
build_analysis_prompt(health_data, user_context) ==
    [daily_logs |-> Len(health_data.inputs) - MaxOf(0, Len(health_data.inputs) - 7),
     assessment |-> "assessment" \in DOMAIN health_data,
     context |-> user_context]

\* the body FastAPI sends: the handler's return value, or 500 for an exception
\* that leaves the handler
Success(result) == [status |-> "success", data |-> result]
HttpAnswer(op, result) ==
    IF IsRaised(result)
    THEN [op |-> op, status |-> 500, body |-> result]
    ELSE [op |-> op, status |-> 200, body |-> Success(result)]

\* a request waiting in self.client.models.generate_content(...)
Waiting(op, arg, prompt) ==
    [pc |-> "generate_content", op |-> op, arg |-> arg, prompt |-> prompt,
     outcome |-> [kind |-> "none"]]

(***************************************************************************)
(* SpecInsights: requests to /insights, one at a time (the handlers call   *)
(* the backend synchronously).  procs holds the request that is inside     *)
(* generate_content, if any.  Whether genai.Client(...) raises, and what   *)
(* the backend does with a call, is the environment's choice.              *)
(***************************************************************************)
IncludeDays == {0, 7}
UserContexts == {None, "why am I tired?"}
DailyLogs ==
    [free_text_input : {"", "tired"}, emoji_input : {""}, selected_symptoms : {<<>>},
     daily_metrics : {<<>>, [mood_score |-> 8], [mood_score |-> 5], [mood_score |-> 2],
                      [mood_score |-> NoneNum]}]

\* GET /insights/status
AiStatus ==
    /\ procs = <<>>
    /\ \E client_ok \in BOOLEAN :
          LET self == ensure_initialized(gemini, settings.GEMINI_API_KEY, client_ok)
          IN  /\ gemini' = self
              /\ resp' = HttpAnswer("ai_status", [ai_available |-> self.client # None])
    /\ UNCHANGED <<call, ret, log, loaded, dbVars, clockVars, histVars, procs, settings, middlewareVars>>

\* POST /insights/analyze, up to the return or to the call of the backend
AnalyzePatterns ==
    /\ procs = <<>>
    /\ \E user_id \in UserIds, include_days \in IncludeDays,
          user_context \in UserContexts, client_ok \in BOOLEAN :
          LET health_data == build_health_data(Db, user_id, include_days)
              self == ensure_initialized(gemini, settings.GEMINI_API_KEY, client_ok)
          IN  IF IsRaised(health_data)
              THEN /\ resp' = HttpAnswer("analyze_patterns", health_data)
                   /\ UNCHANGED <<gemini, procs, middlewareVars>>
              ELSE /\ gemini' = self
                   /\ IF self.client = None
                      THEN /\ resp' = HttpAnswer("analyze_patterns",
                                                 fallback_analysis(health_data))
                           /\ procs' = <<>>
                      ELSE /\ resp' = NoResp
                           /\ procs' = <<Waiting("analyze_patterns", health_data,
                                           build_analysis_prompt(health_data, user_context))>>
    /\ UNCHANGED <<call, ret, log, loaded, dbVars, clockVars, histVars, settings, middlewareVars>>

\* POST /insights/quick-tip, up to the return or to the call of the backend
QuickTip ==
    /\ procs = <<>>
    /\ \E daily_log \in DailyLogs, client_ok \in BOOLEAN :
          LET self == ensure_initialized(gemini, settings.GEMINI_API_KEY, client_ok)
          IN  /\ gemini' = self
              /\ IF self.client = None
                 THEN /\ resp' = HttpAnswer("quick_tip", fallback_tip(daily_log))
                      /\ procs' = <<>>
                 ELSE /\ resp' = NoResp
                      /\ procs' = <<Waiting("quick_tip", daily_log, daily_log)>>
    /\ UNCHANGED <<call, ret, log, loaded, dbVars, clockVars, histVars, settings, middlewareVars>>

\* the backend ends the call: generate_content returns a response or raises
GenerateContentEnds ==
    /\ procs # <<>> /\ procs[1].pc = "generate_content"
    /\ \E outcome \in {CallFailed} \cup
                      {Responded(text) : text \in IF procs[1].op = "quick_tip"
                                                  THEN TipTexts ELSE ResponseTexts} :
          procs' = <<[procs[1] EXCEPT !.pc = "ended", !.outcome = outcome]>>
    /\ UNCHANGED <<call, ret, log, loaded, dbVars, clockVars, resp, histVars, insightVars, middlewareVars>>

\* the rest of analyze_health_patterns or get_quick_tip, and the handler's return
ReturnAfterCall ==
    /\ procs # <<>> /\ procs[1].pc = "ended"
    /\ LET me == procs[1]
           result == IF me.op = "quick_tip" THEN tip_after_call(me.outcome, me.arg)
                     ELSE analyze_after_call(me.outcome, me.arg)
       IN  resp' = HttpAnswer(me.op, result)
    /\ procs' = <<>>
    /\ UNCHANGED <<call, ret, log, loaded, dbVars, clockVars, histVars, insightVars, middlewareVars>>

\* the tables: nothing stored, an input that was never assessed, one assessed
\* user (u2 has nothing), two assessed users
InsightDbs ==
    {EmptyDb,
     submit_health_input(create_user(EmptyDb, ConsentAll).db, 0, "u1", ChestPainOnly).db,
     SeededDb(ChestPainOnly),
     SeededDbBoth(ChestPainOnly, ChestPainEveryDay)}

InitInsights ==
    /\ HarnessIdle
    /\ loaded = TRUE
    /\ \E db \in InsightDbs : InDb(db)
    /\ now = 0
    /\ ticks = 0
    /\ resp = NoResp
    /\ sumAdj = <<>>
    /\ procs = <<>>
    /\ settings \in [GEMINI_API_KEY : {None, "key"}]
    /\ gemini = [client |-> None, initialized |-> FALSE]
    /\ MiddlewareIdle

NextInsights ==
    \/ AiStatus
    \/ AnalyzePatterns
    \/ QuickTip
    \/ GenerateContentEnds
    \/ ReturnAfterCall
SpecInsights == InitInsights /\ [][NextInsights]_vars

\* the handlers' own steps are taken; nothing makes the backend end a call
SpecInsightsFair == SpecInsights /\ WF_vars(ReturnAfterCall)

\* the keys of the dict ExplainabilityEngine.generate_explanation returns
ExplainabilityKeys ==
    {"summary", "confidence_note", "signal_explanations", "next_steps",
     "attention_highlights", "disclaimer"}

\* the answer in resp is the one to a request to POST /insights/analyze
Analyzed == resp.op = "analyze_patterns"

\* C14: every request to the insights analysis operation, whether the backend is
\* unconfigured, fails to initialise, fails during the call or succeeds, and whether
\* or not the user has stored health inputs or assessments, is answered with a
\* result, the backend's analysis or the rule-based fallback analysis: no error
\* reaches the caller.
C14_AnalysisAlwaysAnswered ==
    Analyzed =>
        /\ resp.status = 200
        /\ resp.body.status = "success"
        /\ resp.body.data.source \in {"gemini-pro", "rule-based-fallback"}

\* C15: every call of analyze_health_patterns or get_quick_tip eventually returns,
\* also when the backend never responds.
C15_EveryCallReturns == (procs # <<>>) ~> (procs = <<>>)

\* C16: the object analyze_health_patterns returns has the same top-level keys and
\* the same keys in its explanation payload whether the backend or the rule-based
\* fallback produced it, and the payload's keys are those of the rule-based
\* Explanation Generator: summary, confidence_note, signal_explanations,
\* next_steps, disclaimer.
C16_SameStructureEitherWay ==
    (Analyzed /\ resp.status = 200) =>
        LET returned == resp.body.data
            fallback == fallback_analysis(<<>>)
        IN  /\ DOMAIN returned = DOMAIN fallback
            /\ DOMAIN returned.analysis = DOMAIN fallback.analysis
            /\ DOMAIN returned.analysis
                  = {"summary", "confidence_note", "signal_explanations", "next_steps",
                     "disclaimer"}
            /\ DOMAIN returned.analysis \subseteq ExplainabilityKeys

(***************************************************************************)
(* The scenarios of the extractors, under SpecExtract.                     *)
(***************************************************************************)
\* some signal of the list has this description and this weight
HasSignal(signals, desc, w) ==
    \E i \in 1..Len(signals) : signals[i].signal[1] = desc /\ signals[i].weight = w

\* the call is one with the three-day mood history 8, 8, 2 and current-day
\* metrics whose mood the absolute thresholds do not flag
ThreeDayMoodDrop ==
    /\ ReturnedFrom("_analyze_timeseries_signals")
    /\ call.daily_metrics # NoMetrics
    /\ MoodSignals(call.daily_metrics.mood_score) = <<>>
    /\ Len(call.historical_metrics) = 3
    /\ [i \in 1..3 |-> call.historical_metrics[i].mood_score] = <<8, 8, 2>>

\* C17: on a history of exactly three daily mood values 8, 8, 2 (oldest first) and
\* current-day metrics whose mood is not flagged by the absolute thresholds, the
\* temporal extractor emits the declining-mood trend signal with weight 0.6.
C17_ThreeDayMoodDropIsFlagged ==
    ThreeDayMoodDrop => HasSignal(ret.value.signals, "Declining mood trend detected", 600)

\* classify was called on what the extractors return for empty text, no emoji
\* tokens, no checkbox tokens and no metrics at all
EmptyInputClassified ==
    /\ ReturnedFrom("classify")
    /\ call = ExtractedCall({}, <<>>, <<>>, NoMetrics, <<>>)

\* C18: with empty text, no emoji tokens, no checkbox tokens and no metrics at all,
\* each extractor returns exactly its zero-weight placeholder signal with score 0.0,
\* the fused raw_score is 0.0, the risk_level is LOW, and the data_richness term of
\* the confidence is 0: the placeholder signals do not raise the confidence above
\* the one of a call without signals.
C18_EmptyInputScenario ==
    EmptyInputClassified =>
        /\ Len(call.nlp_signals) = 1 /\ call.nlp_signals[1].weight = 0
        /\ Len(call.ts_signals) = 1 /\ call.ts_signals[1].weight = 0
        /\ call.nlp_score = 0 /\ call.ts_score = 0
        /\ ret.value.raw_score = 0
        /\ ret.value.risk_level = "LOW"
        /\ ret.value.confidence_score = classify(0, 0, <<>>, <<>>, 0).confidence_score

(***************************************************************************)
(* top_signals of classify, under SpecFusion.                              *)
(***************************************************************************)
RECURSIVE SeqToBag(_)
SeqToBag(s) == IF s = <<>> THEN EmptyBag ELSE SetToBag({Head(s)}) (+) SeqToBag(Tail(s))

\* `top` is the n highest-weight signals of `merged` (all of them when there are
\* fewer), in descending order of weight
IsTopByWeight(top, merged, n) ==
    LET left == SeqToBag(merged) (-) SeqToBag(top)
    IN  /\ Len(top) = MinOf(n, Len(merged))
        /\ SeqToBag(top) \sqsubseteq SeqToBag(merged)
        /\ \A i \in 1..Len(top) - 1 : top[i].weight >= top[i + 1].weight
        /\ \A i \in 1..Len(top) : \A x \in BagToSet(left) : top[i].weight >= x.weight

\* C19 (as claimed): top_signals of classify is the merged text and temporal signals
\* sorted in descending order of weight and truncated to the 10 highest-weight
\* signals (all of them when there are fewer than 10).
C19_TopTenSignals ==
    ReturnedFrom("classify") =>
        IsTopByWeight(ret.value.signal_breakdown.top_signals,
                      call.nlp_signals \o call.ts_signals, 10)

\* C19 (amended): top_signals of classify is the merged text and temporal signals
\* sorted in descending order of weight and truncated to the 5 highest-weight
\* signals (all of them when there are fewer than 5).
C19_TopFiveSignals ==
    ReturnedFrom("classify") =>
        IsTopByWeight(ret.value.signal_breakdown.top_signals,
                      call.nlp_signals \o call.ts_signals, 5)

\* C19 witness: nine signals were merged, text ones of weights 0.5, 0.8, 0.3 and
\* six temporal ones of 0.35; five are kept, from 0.8 down to 0.35
C19_Witness ==
    /\ ReturnedFrom("classify")
    /\ Len(call.nlp_signals) = 3 /\ Len(call.ts_signals) > 3
    /\ call.nlp_signals[1].weight = 500 /\ call.nlp_signals[2].weight = 800
    /\ LET top == ret.value.signal_breakdown.top_signals
       IN  /\ Len(top) = 5
           /\ top[1].weight = 800 /\ top[2].weight = 500
           /\ top[3].weight = 350 /\ top[3].category = "timeseries"
           /\ top[5].weight = 350

\* the signals of the list with this description
WithDesc(signals, desc) == SelectSeq(signals, LAMBDA x : x.signal[1] = desc)

\* the signals whose weight enters the score through max(score, weight)
NonAdditive(signals) ==
    SelectSeq(signals, LAMBDA x : x.signal[1] \notin {"Persistence indicator detected",
                                                      "Negative health emoji"})

\* C20: the score _analyze_text_signals returns equals min(1, M + 0.15 p + 0.10 e),
\* where M is the maximum weight over the non-additive signals produced (keywords
\* and checkboxes; 0 if none), p the number of persistence-phrase matches and e the
\* number of negative-affect emoji matches, whatever the order in which text,
\* emoji and checkbox inputs are processed.
C20_ScoreIsMaxPlusDeltas ==
    ReturnedFrom("_analyze_text_signals") =>
        LET signals == ret.value.signals
            M == MaxWeight(NonAdditive(signals))
            p == Len(WithDesc(signals, "Persistence indicator detected"))
            e == Len(WithDesc(signals, "Negative health emoji"))
        IN  ret.value.score = MinOf(1000, M + 150 * p + 100 * e)

\* the mean of the last three values is at least (100 - pct) percent below the mean
\* of all of them: recent_avg <= overall_avg * pct / 100, cleared of fractions
DeclinedAtLeast(xs, pct) ==
    Len(xs) >= 3 /\ SumSeq(LastThree(xs)) * Len(xs) * 100 <= SumSeq(xs) * 3 * pct

\* C21: with current-day metrics given, the temporal extractor emits the
\* declining-mood trend signal (weight 0.6) whenever at least 3 historical mood
\* values exist and the mean of the last 3 is at least 30% below the mean of all of
\* them (recent <= 0.70 * overall, exactly 30% included), and the declining-sleep
\* trend signal (weight 0.55) whenever the mean of the last 3 sleep values is at
\* least 25% below the overall mean (recent <= 0.75 * overall, exactly 25% included).
C21_TrendAtThirtyAndTwentyFivePercent ==
    (ReturnedFrom("_analyze_timeseries_signals") /\ call.daily_metrics # NoMetrics) =>
        /\ DeclinedAtLeast(Truthy(call.historical_metrics, "mood_score"), 70)
              => HasSignal(ret.value.signals, "Declining mood trend detected", 600)
        /\ DeclinedAtLeast(Truthy(call.historical_metrics, "sleep_hours"), 75)
              => HasSignal(ret.value.signals, "Declining sleep trend detected", 550)

\* the mean of the last three values is more than (100 - pct) percent below the
\* mean of all of them
DeclinedMoreThan(xs, pct) ==
    Len(xs) >= 3 /\ SumSeq(LastThree(xs)) * Len(xs) * 100 < SumSeq(xs) * 3 * pct

\* C21 (amended): with current-day metrics given, the temporal extractor emits the
\* declining-mood trend signal (weight 0.6) exactly when at least 3 non-zero
\* historical mood values exist and the mean of the last 3 is more than 30% below
\* the mean of all of them (recent < 0.70 * overall; a decline of exactly 30% is not
\* flagged), and the declining-sleep trend signal (weight 0.55) exactly when the
\* mean of the last 3 non-zero sleep values is more than 25% below the overall mean
\* (recent < 0.75 * overall; exactly 25% is not flagged).
C21_TrendBeyondThirtyAndTwentyFivePercent ==
    (ReturnedFrom("_analyze_timeseries_signals") /\ call.daily_metrics # NoMetrics) =>
        /\ DeclinedMoreThan(Truthy(call.historical_metrics, "mood_score"), 70)
              <=> HasSignal(ret.value.signals, "Declining mood trend detected", 600)
        /\ DeclinedMoreThan(Truthy(call.historical_metrics, "sleep_hours"), 75)
              <=> HasSignal(ret.value.signals, "Declining sleep trend detected", 550)

\* C21 witness: the sleep history 7, 3, 3, 3 hours, a decline of exactly 25% (recent
\* 3.0 against overall 4.0), returned without the sleep trend signal, while its moods
\* 8, 2, 2, 2 (recent 2.0 against overall 3.5) are flagged
C21_Witness ==
    /\ ReturnedFrom("_analyze_timeseries_signals") /\ call.daily_metrics # NoMetrics
    /\ Truthy(call.historical_metrics, "sleep_hours") = <<70, 30, 30, 30>>
    /\ Truthy(call.historical_metrics, "mood_score") = <<8, 2, 2, 2>>
    /\ ~HasSignal(ret.value.signals, "Declining sleep trend detected", 550)
    /\ HasSignal(ret.value.signals, "Declining mood trend detected", 600)

\* the signals of the list whose description is one of `descs`
WithDescIn(signals, descs) == SelectSeq(signals, LAMBDA x : x.signal[1] \in descs)

\* the weights of the absolute thresholds a value satisfies, per metric; sleep is
\* in tenths of an hour
SleepThresholds(v) ==
    {w \in {700, 400, 500} : (w = 700 /\ v < 40) \/ (w = 400 /\ v < 60) \/ (w = 500 /\ v > 120)}
MoodThresholds(v) == {w \in {600, 350} : (w = 600 /\ v <= 2) \/ (w = 350 /\ v <= 4)}
EnergyThresholds(v) == {w \in {400} : v <= 3}
StressThresholds(v) == {w \in {500} : v >= 8}

\* at most one of the signals, none unless a threshold is satisfied, and then of
\* the highest weight among the satisfied thresholds
OnlyHighest(signals, value, satisfied) ==
    /\ Len(signals) <= 1
    /\ Len(signals) = 1 <=> (value # NoneNum /\ satisfied # {})
    /\ Len(signals) = 1 => \A w \in satisfied : signals[1].weight >= w
    /\ Len(signals) = 1 => signals[1].weight \in satisfied

\* C22: for each of the metrics sleep, mood, energy and stress and every value of
\* it, _analyze_timeseries_signals emits at most one absolute-threshold signal for
\* that metric, and when it emits one its weight is the highest weight among the
\* thresholds the value satisfies (sleep <4 -> 0.7, <6 -> 0.4, >12 -> 0.5; mood
\* <=2 -> 0.6, <=4 -> 0.35; energy <=3 -> 0.4; stress >=8 -> 0.5).
C22_OneSignalPerMetric ==
    (ReturnedFrom("_analyze_timeseries_signals") /\ call.daily_metrics # NoMetrics) =>
        LET m == call.daily_metrics
            out == ret.value.signals
        IN  /\ OnlyHighest(WithDescIn(out, {"Critically low sleep", "Below-average sleep",
                                            "Excessive sleep"}),
                           m.sleep_hours, SleepThresholds(m.sleep_hours))
            /\ OnlyHighest(WithDescIn(out, {"Very low mood score", "Low mood score"}),
                           m.mood_score, MoodThresholds(m.mood_score))
            /\ OnlyHighest(WithDescIn(out, {"Low energy level"}),
                           m.energy_level, EnergyThresholds(m.energy_level))
            /\ OnlyHighest(WithDescIn(out, {"High stress level"}),
                           m.stress_level, StressThresholds(m.stress_level))

\* C22 witness: 3.9 hours of sleep (below 4 and below 6) and a mood of 2 (at most 2
\* and at most 4) returned one sleep signal of weight 0.7 and one mood signal of 0.6
C22_Witness ==
    /\ ReturnedFrom("_analyze_timeseries_signals") /\ call.daily_metrics # NoMetrics
    /\ call.daily_metrics.sleep_hours = 39 /\ call.daily_metrics.mood_score = 2
    /\ HasSignal(ret.value.signals, "Critically low sleep", 700)
    /\ ~HasSignal(ret.value.signals, "Below-average sleep", 400)
    /\ HasSignal(ret.value.signals, "Very low mood score", 600)
    /\ ~HasSignal(ret.value.signals, "Low mood score", 350)

\* the call of classify has both extractor scores in [0,1]
ScoresInUnitRange ==
    /\ ReturnedFrom("classify")
    /\ call.nlp_score \in 0..1000 /\ call.ts_score \in 0..1000

\* x, in thousandths, is y, in 1e-5, rounded to three places
IsRounded3(x, y) == Abs(100 * x - y) <= 50

\* C23: for every input of classify with extractor scores in [0,1], raw_score =
\* 0.55 * nlp_score + 0.45 * ts_score and adjusted_score = clip(raw_score +
\* feedback_adjustment, 0, 1): however large the stored net_adjustment, its effect
\* on one assessment stays within [0,1].
C23_RawAndAdjustedScore ==
    ScoresInUnitRange =>
        LET raw == 55 * call.nlp_score + 45 * call.ts_score
            moved == raw + 10 * call.feedback_adjustment
            clipped == IF moved < 0 THEN 0 ELSE IF moved > 100000 THEN 100000 ELSE moved
        IN  /\ IsRounded3(ret.value.raw_score, raw)
            /\ IsRounded3(ret.value.adjusted_score, clipped)
            /\ ret.value.adjusted_score \in 0..1000
            /\ ret.value.risk_level = BucketOf(clipped, 100000)

\* C23 witness: a raw score of 0.25 with a net_adjustment of +2.0 returned the
\* adjusted score 1.0
C23_Witness ==
    /\ ScoresInUnitRange
    /\ call.feedback_adjustment = 20000
    /\ ret.value.raw_score = 250
    /\ ret.value.adjusted_score = 1000
    /\ ret.value.risk_level = "HIGH"

\* C23: and with -2.0 the adjusted score 0.0
C23_WitnessBelow ==
    /\ ScoresInUnitRange
    /\ call.feedback_adjustment = -20000
    /\ ret.value.raw_score = 1000
    /\ ret.value.adjusted_score = 0

(***************************************************************************)
(* The explanations of the signals, by importance.                         *)
(***************************************************************************)
\* the signals of a list whose weight w has lo <= w < hi, in the list's order, as
\* explanations of the given source and importance
InBand(signals, lo, hi, source, imp) ==
    LET kept == SelectSeq(signals, LAMBDA s : s.weight >= lo /\ s.weight < hi)
    IN  [i \in 1..Len(kept) |->
            [source |-> source, finding |-> kept[i].signal, importance |-> imp]]

\* text entries before metric entries within one importance
BandOfBoth(c, lo, hi, imp) ==
    InBand(c.nlp_signals, lo, hi, "Your symptom description", imp)
    \o InBand(c.ts_signals, lo, hi, "Your daily metrics", imp)

ExplainedCall == call.fn = "_explain_signals" /\ ret # Pending

\* C24: the signal explanations are the signals of weight >= 0.3, high at >= 0.7,
\* moderate at >= 0.5 and low otherwise, ordered high, moderate, low with the
\* input order (text before metrics) kept within each importance, and cut to the
\* first 8 entries of that ordering.
C24_ExplanationsByImportance ==
    ExplainedCall =>
        LET ordering == BandOfBoth(call, 700, 1001, "high")
                        \o BandOfBoth(call, 500, 700, "moderate")
                        \o BandOfBoth(call, 300, 500, "low")
        IN  ret.value = SubSeq(ordering, 1, IF Len(ordering) < 8 THEN Len(ordering) ELSE 8)

\* more than 8 signals qualify, of all three importances and of both sources, one
\* sits exactly on each band's lower end and one below 0.3 is dropped
C24_Witness ==
    /\ ExplainedCall
    /\ Len(call.nlp_signals) = 8 /\ Len(call.ts_signals) = 5
    /\ Len(ret.value) = 8
    /\ ret.value[1].source = "Your symptom description"
    /\ ret.value[3].source = "Your daily metrics"
    /\ ret.value[8].importance = "low"

\* a lone high metric signal is listed before twelve low text signals
C24_WitnessCut ==
    /\ ExplainedCall
    /\ Len(call.nlp_signals) > 8 /\ Len(call.ts_signals) = 1
    /\ ret.value[1].source = "Your daily metrics" /\ ret.value[1].importance = "high"
    /\ ret.value[8].importance = "low"

(***************************************************************************)
(* The placeholder signals of the two extractors.                          *)
(***************************************************************************)
Placeholders ==
    {"No concerning patterns detected in text inputs", "No daily metrics provided",
     "Daily metrics within normal range"}

IsPlaceholder(x) == x.weight = 0 /\ x.signal[1] \in Placeholders

ExtractorReturned ==
    /\ call.fn \in {"_analyze_text_signals", "_analyze_timeseries_signals"}
    /\ ret # Pending

\* C25: both extractors return at least one signal; the zero-weight placeholder is
\* in the result exactly when the result holds no real signal (one of a weight
\* above zero), and it is then the only signal of the result.
C25_PlaceholderIffNoRealSignal ==
    ExtractorReturned =>
        LET signals == ret.value.signals
            placeholders == SelectSeq(signals, IsPlaceholder)
            real == SelectSeq(signals, LAMBDA x : x.weight > 0 /\ x.signal[1] \notin Placeholders)
        IN  /\ Len(signals) >= 1
            /\ Len(placeholders) + Len(real) = Len(signals)
            /\ (placeholders # <<>>) <=> (real = <<>>)
            /\ (placeholders # <<>>) => Len(signals) = 1

\* the metrics are all in the normal range, the history shows a declining mood:
\* the trend is the only signal and there is no placeholder
C25_Witness ==
    /\ ExtractorReturned /\ call.fn = "_analyze_timeseries_signals"
    /\ call.daily_metrics = Metrics(75, 5, 4, 7)
    /\ Len(ret.value.signals) = 1
    /\ ret.value.signals[1].signal[1] = "Declining mood trend detected"

\* a text with no keyword, no emoji and no checkbox gives the text placeholder alone
C25_WitnessPlaceholder ==
    /\ ExtractorReturned /\ call.fn = "_analyze_text_signals"
    /\ call.symptom_text = {"feeling fine"}
    /\ Len(ret.value.signals) = 1 /\ IsPlaceholder(ret.value.signals[1])

\* C27: with absent or empty current-day metrics the time-series extractor
\* returns exactly the zero-weight placeholder and score 0.0, whatever the
\* history holds.
C27_NoMetricsIgnoresHistory ==
    (ExtractorReturned /\ call.fn = "_analyze_timeseries_signals"
       /\ call.daily_metrics = NoMetrics) =>
        /\ ret.value.score = 0
        /\ Len(ret.value.signals) = 1
        /\ ret.value.signals[1] = TsSignal("No daily metrics provided", 0, 0)

\* no current-day metrics, and a history whose last three moods average below
\* 70% of the whole
C27_Witness ==
    /\ ExtractorReturned /\ call.fn = "_analyze_timeseries_signals"
    /\ call.daily_metrics = NoMetrics
    /\ Len(call.historical_metrics) >= 3
    /\ HasSignal(TrendSignals(call.historical_metrics), "Declining mood trend detected", 600)
    /\ Len(ret.value.signals) = 1

\* C26: a quick tip for a well-typed daily log is always answered, never raised;
\* when the narrative backend is unavailable the answer is the rule-based tip
\* with its greeting, quick_tip and encouragement, also for a log whose
\* daily_metrics is empty or holds mood_score with no value.
C26_QuickTipFallsBackForEveryLog ==
    (resp.op = "quick_tip") =>
        /\ resp.status = 200
        /\ resp.body.data.source \in {"gemini-flash", "rule-based-fallback"}
        /\ (gemini.client = None) =>
              /\ resp.body.data.source = "rule-based-fallback"
              /\ DOMAIN resp.body.data.tip = {"greeting", "quick_tip", "encouragement"}

(***************************************************************************)
(* SecurityMiddleware: the sliding-window rate limiter in front of every   *)
(* request.  Times are whole seconds of time.time(), which is taken to     *)
(* never step backwards.  settings.RATE_LIMIT_PER_MINUTE is read from the  *)
(* environment (default 60); the specification runs it over small values.  *)
(***************************************************************************)
window == 60
MaxRate == 2
MaxRequests == 4
MaxClock == 90
\* how far time.time() moves between two requests
ClockSteps == {29, 30}
\* request.client (None when the server does not know the peer)
Clients == {None, "10.0.0.1"}
\* the content-length header: absent, small, 1 MB exactly, above 1 MB
ContentLengths == {NoneNum, 1000000, 1000001}

\* [t for t in self._request_counts[client_ip] if now - t < window]
CleanOld(times, t_now) == SelectSeq(times, LAMBDA t : t_now - t < window)

\* a deliberately wrong variant, for comparison: the request is recorded before the
\* limit is looked at, so a rejected request is recorded too
check_rate_limit_recording(counts, client_ip, t_now, limit) ==
    LET kept == CleanOld(counts[client_ip], t_now)
    IN  [allowed |-> Len(kept) < limit,
         counts |-> [counts EXCEPT ![client_ip] = Append(kept, t_now)]]

\* _check_rate_limit: what it returns and what it leaves in _request_counts
check_rate_limit(counts, client_ip, t_now, limit) ==
    LET kept == CleanOld(counts[client_ip], t_now)
    IN  IF Len(kept) >= limit
        THEN [allowed |-> FALSE, counts |-> [counts EXCEPT ![client_ip] = kept]]
        ELSE [allowed |-> TRUE,
              counts |-> [counts EXCEPT ![client_ip] = Append(kept, t_now)]]

\* dispatch: 429 from the rate limiter, 413 for a payload above 1 MB, else the
\* answer of the application (200 here)
Dispatch ==
    /\ Len(log) < MaxRequests
    /\ \E client \in Clients, content_length \in ContentLengths :
          LET client_ip == IF client # None THEN client ELSE "unknown"
              checked == check_rate_limit(request_counts, client_ip, clock,
                                          settings.RATE_LIMIT_PER_MINUTE)
              status == IF ~checked.allowed THEN 429
                        ELSE IF content_length # NoneNum /\ content_length > 1000000 THEN 413
                        ELSE 200
          IN  /\ request_counts' = checked.counts
              /\ resp' = [op |-> "dispatch", status |-> status]
              /\ log' = Append(log, [client_ip |-> client_ip, at |-> clock,
                                     admitted |-> checked.allowed])
    /\ UNCHANGED <<call, ret, loaded, dbVars, clockVars, histVars, procs, gemini, settings,
                   clock>>

\* time passes between two requests
ClockAdvances ==
    /\ \E d \in ClockSteps : clock + d <= MaxClock /\ clock' = clock + d
    /\ UNCHANGED <<call, ret, log, loaded, dbVars, clockVars, resp, histVars, procs,
                   insightVars, request_counts>>

InitRate ==
    /\ HarnessIdle
    /\ loaded = FALSE
    /\ InDb(EmptyDb)
    /\ now = 0
    /\ ticks = 0
    /\ resp = NoResp
    /\ sumAdj = <<>>
    /\ procs = <<>>
    /\ settings \in [GEMINI_API_KEY : {None}, RATE_LIMIT_PER_MINUTE : 1..MaxRate]
    /\ gemini = [client |-> None, initialized |-> FALSE]
    /\ MiddlewareIdle

NextRate == Dispatch \/ ClockAdvances
SpecRate == InitRate /\ [][NextRate]_vars

\* the requests of one client that the limiter admitted at a time in [from, to)
AdmittedIn(client_ip, from, to) ==
    {i \in DOMAIN log : /\ log[i].client_ip = client_ip /\ log[i].admitted
                        /\ from <= log[i].at /\ log[i].at < to}

\* C28: for every client IP, no window of 60 seconds holds more admitted requests
\* than RATE_LIMIT_PER_MINUTE; and a rejected request is not recorded: a request
\* is rejected only while RATE_LIMIT_PER_MINUTE admitted requests lie less than
\* 60 seconds back, and the times kept for a client are times of admitted requests.
C28_RateLimitPerWindow ==
    (log # <<>> /\ resp.op = "dispatch") =>
        \A client_ip \in ClientIps :
            /\ \A from \in 0..clock :
                  Cardinality(AdmittedIn(client_ip, from, from + window))
                      <= settings.RATE_LIMIT_PER_MINUTE
            /\ \A i \in DOMAIN log :
                  (log[i].client_ip = client_ip /\ ~log[i].admitted) =>
                      Cardinality(AdmittedIn(client_ip, log[i].at - window + 1, log[i].at + 1)
                                  \cap 1..i)
                          >= settings.RATE_LIMIT_PER_MINUTE
            /\ Len(request_counts[client_ip])
                  <= Cardinality(AdmittedIn(client_ip, 0, clock + 1))

\* with a limit of 1: one client is rejected 59 seconds after its request, the
\* other is admitted again 60 seconds after its request
C28_Witness ==
    /\ Len(log) = 4 /\ settings.RATE_LIMIT_PER_MINUTE = 1
    /\ log[1] = [client_ip |-> "unknown", at |-> 0, admitted |-> TRUE]
    /\ log[2] = [client_ip |-> "10.0.0.1", at |-> 29, admitted |-> TRUE]
    /\ log[3] = [client_ip |-> "unknown", at |-> 59, admitted |-> FALSE]
    /\ log[4] = [client_ip |-> "10.0.0.1", at |-> 89, admitted |-> TRUE]
    /\ request_counts["unknown"] = <<0>>

\* C29: every stored Feedback row references a RiskAssessment row that is still
\* stored and belongs to the same user.
C29_FeedbackReferencesStoredAssessment ==
    \A f \in BagToSet(feedback) :
        \E i \in 1..Len(risk_assessments) :
            /\ risk_assessments[i].id = f.assessment_id
            /\ risk_assessments[i].user_id = f.user_id

(***************************************************************************)
(* Erasure with requests in flight.  The handlers are plain `def`s, which  *)
(* the server runs on worker threads, each with its own Session.  A        *)
(* request's queries see what is committed when they run; what it adds and *)
(* changes becomes visible at its db.commit().  Here a request takes two   *)
(* steps: its queries up to its last check, then its writes and commit;    *)
(* delete_user_data is one transaction and takes one step.  The foreign    *)
(* keys are declared on the models, but nothing in the sources turns their *)
(* enforcement on for the configured SQLite database.                      *)
(***************************************************************************)
MaxInFlight == 3
InFlightIds == 1..MaxInFlight

ErasureRequests ==
    {[op |-> "delete_user_data", user_id |-> "u1", body |-> [confirm |-> TRUE]],
     [op |-> "submit_health_input", user_id |-> "u1", body |-> ChestPainOnly],
     [op |-> "run_assessment", user_id |-> "u1", body |-> [include_history_days |-> 7]],
     [op |-> "submit_feedback", user_id |-> "u1",
      body |-> FeedbackData(1, "confirm", 5, None)]}

NewRequest(r) ==
    [op |-> r.op, user_id |-> r.user_id, body |-> r.body, pc |-> "verify",
     seen |-> EmptyDb, status |-> 0]

\* what the handler answers on the database `db`, were it to run alone
Handled(me, db, utcnow) ==
    CASE me.op = "submit_health_input" -> submit_health_input(db, utcnow, me.user_id, me.body)
      [] me.op = "run_assessment" ->
            run_assessment(db, utcnow, TRUE, me.user_id, me.body.include_history_days, 1)
      [] me.op = "submit_feedback" -> submit_feedback(db, utcnow, me.user_id, me.body)

\* the user lookup and the other queries and checks before the handler writes:
\* the request leaves with 4xx, or goes on with the rows it has read
RequestVerifies(p) ==
    /\ procs[p].pc = "verify" /\ procs[p].op # "delete_user_data"
    /\ LET me == procs[p]
           out == Handled(me, Db, now)
       IN  procs' = [procs EXCEPT ![p] =
                IF out.status # 201 THEN [me EXCEPT !.pc = "done", !.status = out.status]
                ELSE [me EXCEPT !.pc = "commit", !.seen = Db]]
    /\ UNCHANGED <<call, ret, log, loaded, dbVars, clockVars, resp, histVars, insightVars,
                   middlewareVars>>

\* the inputs run_assessment read as not yet processed: `inp.is_processed =
\* "processed"` changes them, so the commit issues an UPDATE for each
InputsToUpdate(seen, input_ids) ==
    {i \in 1..Len(seen.health_inputs) :
        /\ InSeq(seen.health_inputs[i].id, input_ids)
        /\ seen.health_inputs[i].is_processed # "processed"}

\* db.add(...) and db.commit() of the three handlers, on what is committed now.
\* An UPDATE of a row that is no longer there fails the flush (StaleDataError):
\* the request answers 500 and writes nothing.  process_feedback looks its
\* assessment up again and skips the update when it is gone.
RequestCommits(p) ==
    /\ procs[p].pc = "commit"
    /\ LET me == procs[p]
           out == Handled(me, [me.seen EXCEPT !.ids = ids], now)
           row == out.body
           stale == /\ me.op = "run_assessment"
                    /\ \E i \in InputsToUpdate(me.seen, row.input_ids) :
                          FirstById(health_inputs, me.seen.health_inputs[i].id) = NoRow
           done == process_feedback(feedback, risk_assessments, now, me.user_id,
                                    me.body.assessment_id, me.body.feedback_type,
                                    me.body.relevance_score, me.body.adjusted_risk_level)
       IN  /\ procs' = [procs EXCEPT ![p] =
                          [me EXCEPT !.pc = "done", !.status = IF stale THEN 500 ELSE 201]]
           /\ CASE stale -> UNCHANGED dbVars
                [] me.op = "submit_health_input" ->
                      /\ health_inputs' = Append(health_inputs, row)
                      /\ ids' = [ids EXCEPT !.health_inputs = @ + 1]
                      /\ UNCHANGED <<users, risk_assessments, feedback>>
                [] me.op = "run_assessment" /\ ~stale ->
                      /\ risk_assessments' = Append(risk_assessments, row)
                      /\ health_inputs' = MarkProcessed(health_inputs, row.input_ids)
                      /\ ids' = [ids EXCEPT !.risk_assessments = @ + 1]
                      /\ UNCHANGED <<users, feedback>>
                [] me.op = "submit_feedback" ->
                      /\ feedback' = done.feedback
                      /\ risk_assessments' = done.risk_assessments
                      /\ ids' = [ids EXCEPT !.feedback = @ + 1]
                      /\ UNCHANGED <<users, health_inputs>>
    /\ UNCHANGED <<call, ret, log, loaded, clockVars, resp, histVars, insightVars,
                   middlewareVars>>

\* DELETE /privacy/{user_id}?confirm=true: PrivacyService.delete_user_data
ErasureCommits(p) ==
    /\ procs[p].pc = "verify" /\ procs[p].op = "delete_user_data"
    /\ LET me == procs[p]
           out == delete_user_data(Db, me.user_id, me.body.confirm)
       IN  /\ SetDb(out.db)
           /\ procs' = [procs EXCEPT ![p] = [me EXCEPT !.pc = "done", !.status = out.status]]
    /\ UNCHANGED <<call, ret, log, loaded, clockVars, resp, histVars, insightVars,
                   middlewareVars>>

InitErasure ==
    /\ HarnessIdle
    /\ loaded = TRUE
    /\ InDb(SeededDbBoth(ChestPainOnly, ChestPainEveryDay))
    /\ now = 0
    /\ ticks = 0
    /\ resp = NoResp
    /\ sumAdj = [u \in UserIds |-> 0]
    /\ procs \in [InFlightIds -> {NewRequest(r) : r \in ErasureRequests}]
    /\ InsightsIdle
    /\ MiddlewareIdle

NextErasure ==
    \E p \in InFlightIds : RequestVerifies(p) \/ RequestCommits(p) \/ ErasureCommits(p)
SpecErasure == InitErasure /\ [][NextErasure]_vars

RowsOf(user_id) ==
    [users |-> SelectSeq2(users, "id", user_id),
     health_inputs |-> SelectSeq2(health_inputs, "user_id", user_id),
     risk_assessments |-> SelectSeq2(risk_assessments, "user_id", user_id),
     feedback |-> {r \in BagToSet(feedback) : r.user_id = user_id}]

NoRowsOf(user_id) ==
    RowsOf(user_id) = [users |-> <<>>, health_inputs |-> <<>>, risk_assessments |-> <<>>,
                       feedback |-> {}]

\* C30: once delete_user_data has completed for a user, no User, HealthInput,
\* RiskAssessment or Feedback row of that user is stored, whatever requests of
\* that user were in flight past their user check when the deletion committed.
C30_NothingLeftAfterErasure ==
    \A p \in InFlightIds :
        (procs[p].op = "delete_user_data" /\ procs[p].pc = "done" /\ procs[p].status = 200)
            => NoRowsOf(procs[p].user_id)

=============================================================================
